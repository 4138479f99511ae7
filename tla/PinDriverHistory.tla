-------------------------- MODULE PinDriverHistory --------------------------
(***************************************************************************)
(* PinDriver with a history variable: the addresses at which the program   *)
(* has stored something since the tool was attached.  It only observes the *)
(* steps of the driver and takes no part in them; what a container must    *)
(* hold at an address depends on it.                                       *)
(***************************************************************************)
EXTENDS PinDriver_Properties

VARIABLE written

historyVars == <<vars, written>>

(* The threads that execute a store in this step.                          *)
Storing == {t \in Threads : /\ pc[t] = "execute" /\ pc'[t] = "fetch"
                            /\ ins[t].kind \in {"write", "update"}}

HistoryInit == Init /\ written = {}
HistoryNext == Next /\ written' = written \cup {ins[t].addr : t \in Storing}
HistorySpec == HistoryInit /\ [][HistoryNext]_historyVars

(* For a single thread that is always instrumented: what a container       *)
(* returns to a read is what the program will read where it has stored     *)
(* something, and INT_NAN only where it has not.  Every write reaches every*)
(* container before the next read, with the value that was stored.         *)
ReadsSeeTheProgram ==
  \A t \in Threads : pc[t] = "rdLoop" =>
    LET addr == ins[t].addr
    IN  \A i \in Protos : sim[i][addr] = IF addr \in written THEN mem[addr] ELSE NaN
=============================================================================
