------------------------------ MODULE MCRecords ------------------------------
(***************************************************************************)
(* RecordDesks for TLC: one enquiry of one client, with one quote.         *)
(***************************************************************************)
EXTENDS RecordDesks, TLC

CONSTANTS l1, q1, k1, s1, s2

Stage(default, won, lost) == [default |-> default, won |-> won, lost |-> lost]
ThreeStages == "new" :> Stage(TRUE, FALSE, FALSE) @@ "won" :> Stage(FALSE, TRUE, FALSE)
               @@ "lost" :> Stage(FALSE, FALSE, TRUE)
LeadBehind == l1 :> l1 @@ q1 :> l1 @@ k1 :> None

Alike == Permutations({s1, s2})

==============================================================================
