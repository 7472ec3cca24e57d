---------------------------- MODULE FlowLifecycle ----------------------------
(***************************************************************************)
(* What the conntrack table promises for one flow, as the state machine of *)
(* section 4.6 of the specification draws it: an entry is created, packets *)
(* refresh it to ACTIVE, its timer moves it one stage at a time towards    *)
(* RELEASE, and it leaves the table from RELEASE only.  Every step is      *)
(* atomic here; module FirewallCt is shown to implement this state machine *)
(* with handlers and callbacks that interleave.                            *)
(***************************************************************************)
CONSTANT Keys       \* the flows

VARIABLE life       \* flow -> "absent" or the conn_status of its entry

\* The stage that follows each stage that has one.
After == [ACTIVE |-> "TIMEOUT_1", TIMEOUT_1 |-> "TIMEOUT_2", TIMEOUT_2 |-> "RELEASE"]
Tracked == {"INIT", "RELEASE"} \cup DOMAIN After

TypeOK == life \in [Keys -> Tracked \cup {"absent"}]

Init == life = [k \in Keys |-> "absent"]

\* The first packet of a flow that may open one.
Create(k) ==
    /\ life[k] = "absent"
    /\ life' = [life EXCEPT ![k] = "INIT"]

\* The entry could not be given a timer and is taken back.
Abort(k) ==
    /\ life[k] = "INIT"
    /\ life' = [life EXCEPT ![k] = "absent"]

\* Any accepted packet counts as activity, whatever the stage.
Refresh(k) ==
    /\ life[k] \in Tracked
    /\ life' = [life EXCEPT ![k] = "ACTIVE"]

\* The timer found the entry as it had left it: one stage further.
Age(k) ==
    /\ life[k] \in DOMAIN After
    /\ life' = [life EXCEPT ![k] = After[life[k]]]

\* RELEASE timed out.
Delete(k) ==
    /\ life[k] = "RELEASE"
    /\ life' = [life EXCEPT ![k] = "absent"]

Next == \E k \in Keys : Create(k) \/ Abort(k) \/ Refresh(k) \/ Age(k) \/ Delete(k)

Spec == Init /\ [][Next]_life

=============================================================================
