------------------------------ MODULE MCMobileSync ------------------------------
(* Small instances of MobileSync: a command for each kind of document that    *)
(* the mobile client works on, and two for the transfer.                      *)
EXTENDS MCWarehouse, MobileSync

CONSTANTS send, fetch, take, tally, intake, p1, p2

Plans ==
    [m \in MobileCommands |->
        CASE m = send -> << "dispatch" >> [] m = fetch -> << "receive" >>
          [] m = take -> << "edit", "post" >> [] m = tally -> << "enter", "submit" >>
          [] m = intake -> << "intake" >>]

Targets ==
    [m \in MobileCommands |->
        CASE m \in {send, fetch} -> t1 [] m = take -> g1 [] m = tally -> c1 [] m = intake -> q1]

Captured ==
    [m \in MobileCommands |->
        CASE m = take -> 2 [] m = intake -> << 2, 1 >>
          [] m = tally -> << Seen(3, {}), Seen(2, {u4, u3}) >> [] OTHER -> NoDoc]

(* A transfer has keys of its own when it is posted from the mobile client.   *)
CommandKeys ==
    [m \in MobileCommands |->
        IF m \in {send, fetch} THEN << DocOf[m], PlanOf[m][1] >>
        ELSE << PlanOf[m][Len(PlanOf[m])], DocOf[m] >>]

Versioned == [d \in Docs |-> { m \in MobileCommands \ {intake} : DocOf[m] = d }]

MobileScenarios ==
    { InPlay(t1 :> "APPROVED"), InPlay(g1 :> "DRAFT"), InPlay(q1 :> "DRAFT"), InPlay(c1 :> "COUNTING") }

Desktop == [w \in Workers |-> {"approve"}]

(* .. and what the desktop client may do besides. *)
DesktopDispatch == [w \in Workers |-> {"dispatch"}]

MobileRaces ==
    [transfer |-> {"approve", "dispatch", "receive", "cancel"},
     receipt |-> {"edit", "post"},
     adjustment |-> {},
     return |-> {"intake"},
     count |-> {"enter", "submit", "approve"},
     task |-> {}]

MobileSymmetry == Permutations(Workers) \cup Permutations(Tabs)
=============================================================================
