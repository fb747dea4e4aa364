-------------------------- MODULE RegisterRenaming --------------------------
(***************************************************************************)
(* What register renaming promises, without free list, pointers or repair: *)
(* a committed map from logical to physical registers, and the writers in  *)
(* flight in program order.  In one step a prefix of the writers commits,  *)
(* and either new writers enter with registers that nothing uses, or every *)
(* writer that is left is thrown away.  A system call starts again from an *)
(* arbitrary committed map.                                                *)
(***************************************************************************)
EXTENDS Naturals, Sequences

CONSTANTS Log, Phy

VARIABLES committed, inflight

avars == <<committed, inflight>>

IsMap(m) == m \in [Log -> Phy] /\ \A l, k \in Log : m[l] = m[k] => l = k

InUse == {committed[l] : l \in Log} \union
         {inflight[i].phyDest : i \in DOMAIN inflight}

\* The committed map after the oldest n writers
After(n) ==
    [l \in Log |->
        IF \E i \in 1 .. n : inflight[i].logDest = l
        THEN inflight[CHOOSE i \in 1 .. n :
                 /\ inflight[i].logDest = l
                 /\ \A j \in 1 .. n : inflight[j].logDest = l => j <= i].phyDest
        ELSE committed[l]]

Fresh(new) ==
    \A i \in DOMAIN new :
        /\ new[i].logDest \in Log
        /\ new[i].phyDest \in Phy \ InUse
        /\ \A j \in DOMAIN new : new[j].phyDest = new[i].phyDest => i = j

Rest(n) == SubSeq(inflight, n + 1, Len(inflight))

Init == IsMap(committed) /\ inflight = <<>>

Advance(n) ==
    /\ committed' = After(n)
    /\ LET new == SubSeq(inflight', Len(Rest(n)) + 1, Len(inflight'))
       IN  inflight' = Rest(n) \o new /\ Fresh(new)

Flush(n) ==
    /\ committed' = After(n)
    /\ inflight' = <<>>

Restart ==
    /\ IsMap(committed')
    /\ inflight' = <<>>

Next ==
    \/ \E n \in 0 .. Len(inflight) : Advance(n) \/ Flush(n)
    \/ Restart

Spec == Init /\ [][Next]_avars
=============================================================================
