------------------------------ MODULE MCPppFsm ------------------------------
(* Situations for PppFsm: a client "a" and a server "b" on one line.       *)
EXTENDS PppFsm

MCPeers == {"a", "b"}

Ends(x, y) == [a |-> x, b |-> y]

up == [op |-> "lowerup"]
down == [op |-> "lowerdown"]
close == [op |-> "close"]
open == [op |-> "open", options |-> {}]
reopen == [op |-> "open", options |-> {"RESTART"}]
listen == [op |-> "open", options |-> {"SILENT"}]

(* The server has the client authenticate itself with CHAP and wants one   *)
(* more character escaped than the client offers.                          *)
Usual(local) ==
    [remote |-> Ends({}, {"chap"}), local |-> Ends(local, {}),
     accm |-> Ends({}, {"x"})]

Situation(s, calls, conf, lost, failed, patient, ids) ==
    [remote |-> s.remote, local |-> s.local, accm |-> s.accm,
     calls |-> calls, conf |-> conf, losses |-> lost, failures |-> failed,
     patient |-> patient, ids |-> ids]

MCSetups ==
    { (* both ends start *)
      Situation(Usual({"chap"}), Ends(<<up, open>>, <<open, up>>), 3, 2, 0, TRUE, 16),
      (* the server listens *)
      Situation(Usual({"chap", "pap"}), Ends(<<open, up>>, <<listen, up>>), 3, 2, 0, TRUE, 16),
      (* the client has no secret, or another one *)
      Situation(Usual({}), Ends(<<up, open>>, <<listen, up>>), 3, 2, 0, TRUE, 16),
      Situation(Usual({"pap"}), Ends(<<up, open>>, <<up, open>>), 3, 1, 0, TRUE, 16),
      (* the line drops and returns, the server is closed and opened again *)
      Situation(Usual({"chap"}), Ends(<<up, open, down, up>>, <<up, open, close, reopen>>),
                2, 0, 0, TRUE, 16),
      (* memory is short while both ends start, when the client has no      *)
      (* secret, and when the server is closed                              *)
      Situation(Usual({"chap"}), Ends(<<up, open>>, <<open, up>>), 2, 0, 1, TRUE, 4),
      Situation(Usual({}), Ends(<<up, open>>, <<listen, up>>), 2, 0, 2, TRUE, 4),
      Situation(Usual({"chap"}), Ends(<<up, open>>, <<up, open, close>>), 2, 0, 1, TRUE, 4),
      (* hasty timers, and memory short too *)
      Situation(Usual({"chap"}), Ends(<<up, open>>, <<up, open>>), 2, 0, 0, FALSE, 2),
      Situation(Usual({"chap"}), Ends(<<up, open, close>>, <<up, listen>>), 2, 0, 1, FALSE, 1) }
=============================================================================
