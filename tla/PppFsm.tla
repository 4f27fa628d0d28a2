------------------------------- MODULE PppFsm -------------------------------
(***************************************************************************)
(* The option negotiation of PPP: the state machine of pppfsm.c at both    *)
(* ends of a line, the callbacks LCP gives it (lcp.c) and the transmit     *)
(* task with its retransmission queue (pkttx.c).                           *)
(*                                                                         *)
(* Three threads work on each end: the application (or the dialler), the   *)
(* receive task and the transmit task.  They take the machine's MUTEX, so  *)
(* a handler is one action; a packet or a command for the transmit task    *)
(* goes through its message queue (field out) and takes effect later,      *)
(* which is where handlers and timers cross.  The transmit task unlinks    *)
(* an expired packet BEFORE it calls the machine (Expire, then TimedOut).  *)
(*                                                                         *)
(* Memory may be short: a request finds no packet (parameter packet), or a *)
(* message for the transmit task is lost (Become).  The machine goes on as *)
(* if both had been there.                                                 *)
(*                                                                         *)
(* Two options stand for all: the authentication protocol "ap" and the     *)
(* set "accm" of characters to be escaped.  The identifier kept beside     *)
(* the options of a request stands for the options left out.               *)
(***************************************************************************)
EXTENDS Integers, Sequences, FiniteSets, SequencesExt, Functions

CONSTANTS
    Peers,          \* the two ends
    Setups,         \* what differs between the situations explored, see below
    MaxTerm,        \* _PPP_MAX_TERM_RETRIES, 2
    MaxNaks         \* _PPP_MAX_CONF_NAKS, 5

ASSUME PeersAssumption == IsFiniteSet(Peers) /\ Cardinality(Peers) = 2

(* A request may be sent as often as the closing of a link (the default is *)
(* 10), and twice at least: the user may allow a single try, but then its  *)
(* time-out is the last one and WaitIsTimed fails, see there.              *)
ASSUME SetupsAssumption ==
    /\ MaxTerm \in Nat \ {0} /\ MaxNaks \in Nat
    /\ \A s \in Setups :
        /\ s.ids \in Nat /\ s.losses \in Nat /\ s.failures \in Nat
        /\ s.patient \in BOOLEAN
        /\ s.conf \in Nat /\ s.conf >= 2 /\ s.conf >= MaxTerm

VARIABLES
    fsm,            \* [Peers -> PPPFSM_CFG with its LCP options and messages]
    rexmit,         \* [Peers -> the transmit task's retransmission queue]
    expired,        \* [Peers -> the packet unlinked and about to call back]
    wire,           \* [Peers -> frames on their way to this peer]
    todo,           \* [Peers -> the calls still to be made on this peer]
    losses,         \* frames the line may still lose
    failures,       \* allocations that may still fail
    setup           \* the situation, chosen once

pppVars == <<fsm, rexmit, expired, wire, todo, losses, failures, setup>>

(***************************************************************************)
(* A setup says which secrets each end has for authenticating the peer     *)
(* (remote) and itself (local), the characters each end wants escaped, the *)
(* calls made on it, how many frames are lost and allocations fail, the    *)
(* retries of a request (conf: _PPP_MAX_CONF_RETRIES, 10 unless the user   *)
(* sets it) and whether the timers are patient: longer than a round trip,  *)
(* and never running out at the very moment of a call.  ids bounds the     *)
(* requests an end may build: identifiers do not wrap within it.           *)
(***************************************************************************)
Peer(p) == CHOOSE q \in Peers : q # p

(* The states, numbered as in ppp.h: the code compares them.               *)
INITIAL == 0    STARTING == 1   CLOSED == 2     STOPPED == 3
CLOSING == 4    STOPPING == 5   REQ_SENT == 6   ACK_RCVD == 7
ACK_SENT == 8   OPENED == 9

NoOptions == [id |-> -1, opts |-> <<>>]

(* The options of an acknowledgement without any, not even those left out  *)
Nothing == [none |-> TRUE]

Goto(f, s) == [f EXCEPT !.STATE = s]

(* A message for the transmit task, unless it is lost: see Become.         *)
Post(f, m) == [f EXCEPT !.out = Append(@, m)]

Packet(c, i, o) == [code |-> c, id |-> i, opts |-> o]

(* PPP_send_one and PPP_send_rexmit: the same command, with or without     *)
(* retries.  PPP_send_stop, PPP_send_restart: commands for the timer.      *)
Send(packet, retry) == [cmd |-> "SEND", pkt |-> packet, retry |-> retry]
Stop == [cmd |-> "STOP"]
Restart == [cmd |-> "RESTART"]

-----------------------------------------------------------------------------
(* LCP's callbacks.                                                        *)

(* LCP_resetconfreq: ask for CHAP before PAP, and for nothing without      *)
(* secrets to check the peer with.                                         *)
Wish(p) ==
    LET remote == setup.remote[p]
        ap == IF "chap" \in remote THEN "chap" ELSE "pap"
    IN  IF remote = {} THEN [accm |-> setup.accm[p]]
                       ELSE [accm |-> setup.accm[p], ap |-> ap]

(* LCP_recvconfreq: the answer to the options a peer asks for.             *)
Answer(p, opts, reject) ==
    LET local   == setup.local[p]
        asked   == DOMAIN opts
        refused == {n \in asked : n = "ap" /\ local = {}}
        unfit   == {n \in asked :
                        IF n = "ap" THEN opts.ap \notin local
                                    ELSE ~(setup.accm[p] \subseteq opts.accm)}
        better  == [n \in unfit |->
                        IF n = "ap" THEN CHOOSE a \in local : a = "chap" \/ "chap" \notin local
                                    ELSE opts.accm \cup setup.accm[p]]
    IN  IF refused # {} THEN [code |-> "REJ", opts |-> Restrict(opts, refused)]
        ELSE IF unfit = {} THEN [code |-> "ACK", opts |-> opts]
        ELSE IF reject THEN [code |-> "REJ", opts |-> Restrict(opts, unfit)]
        ELSE [code |-> "NAK", opts |-> better]

(* LCP_recvconfnak: characters are added; the protocol asked for next is   *)
(* CHAP whenever there are CHAP secrets, else the one asked before.        *)
(* LCP_recvconfrej: what is rejected is no longer asked for.               *)
Revised(p, neg, m) ==
    IF m.code = "REJ" THEN Restrict(neg, DOMAIN neg \ DOMAIN m.opts)
    ELSE [n \in DOMAIN neg |->
              IF n \notin DOMAIN m.opts THEN neg[n]
              ELSE IF n = "accm" THEN neg.accm \cup m.opts.accm
              ELSE IF "chap" \in setup.remote[p] THEN "chap" ELSE neg.ap]

(* LCP_up refuses a link whose peer need not authenticate although it must *)
Admits(p, f) == setup.remote[p] # {} => "ap" \in DOMAIN f.RECV_OPT.opts

(* LCP_up and LCP_down, as far as the two ends can tell                    *)
LinkUp(f) == [f EXCEPT !.LINK = TRUE]
LinkDown(f) == [f EXCEPT !.LINK = FALSE]

-----------------------------------------------------------------------------
(* PPPFSM_sendconfreq, PPPFSM_sendtermreq and PPPFSM_sendtermack.          *)

Negotiating(s) == STOPPED < s /\ s < OPENED

StopTimer(f) == IF Negotiating(f.STATE) THEN Post(f, Stop) ELSE f

ResetOptions(p, f) ==
    IF f.STATE <= STOPPING \/ f.STATE >= OPENED
    THEN [f EXCEPT !.RECV_NEG = Wish(p), !.RECV_OPT = NoOptions,
                   !.SEND_OPT = NoOptions, !.NAKS = 0]
    ELSE f

(* PPP_pcballoc finds no packet.  The timer has been stopped, nothing is   *)
(* sent, and the caller is not told.                                       *)
NoPacket(f) == [f EXCEPT !.ST_CP_NOBUFS = @ + 1]

SendConfReq(p, f, packet) ==
    LET g == StopTimer(ResetOptions(p, f))
    IN  IF packet
        THEN Post([g EXCEPT !.REQID = g.CURID, !.CURID = @ + 1],
                  Send(Packet("REQ", g.CURID, g.RECV_NEG), setup.conf))
        ELSE NoPacket(g)

SendTermReq(f, packet) ==
    IF packet
    THEN Post([StopTimer(f) EXCEPT !.CURID = @ + 1],
              Send(Packet("TERM_REQ", f.CURID, <<>>), MaxTerm))
    ELSE NoPacket(StopTimer(f))

SendTermAck(f, m, delay) ==
    Post(f, Send(Packet("TERM_ACK", m.id, <<>>), IF delay THEN 1 ELSE 0))

(* Negotiation starts, or starts again, with a request of our own.         *)
Begin(p, f, packet) == Goto(SendConfReq(p, f, packet), REQ_SENT)

(* Both requests are acknowledged: up, unless LCP_up refuses.              *)
Up(p, f, packet) ==
    IF Admits(p, f) THEN Post(Goto(LinkUp(f), OPENED), Stop)
                    ELSE Goto(SendTermReq(f, packet), CLOSING)

-----------------------------------------------------------------------------
(* The calls made on a machine.  A handler needs one packet at most; those *)
(* that answer with the packet just received cannot fail to have one.      *)

LowerUp(p, f, packet) ==
    CASE f.STATE = INITIAL -> Goto(f, CLOSED)
      [] f.STATE = STARTING -> IF "SILENT" \in f.OPTIONS THEN Goto(f, STOPPED)
                                                         ELSE Begin(p, f, packet)
      [] OTHER -> f

LowerDown(p, f) ==
    CASE f.STATE = CLOSED -> Goto(f, INITIAL)
      [] f.STATE = STOPPED -> Goto(f, STARTING)
      [] f.STATE = CLOSING -> Post(Goto(f, INITIAL), Stop)
      [] f.STATE \in STOPPING .. ACK_SENT -> Post(Goto(f, STARTING), Stop)
      [] f.STATE = OPENED -> Goto(LinkDown(f), STARTING)
      [] OTHER -> f

Open(p, f, packet, options) ==
    LET g == [f EXCEPT !.OPTIONS = options]
        h == IF g.STATE = CLOSING THEN Goto(g, STOPPING) ELSE g
        again == "RESTART" \in options
    IN  CASE g.STATE = INITIAL -> Goto(g, STARTING)
          [] g.STATE = CLOSED /\ "SILENT" \in options -> Goto(g, STOPPED)
          [] g.STATE = CLOSED /\ "SILENT" \notin options -> Begin(p, g, packet)
          [] g.STATE \in STOPPED .. STOPPING /\ again -> Begin(p, h, packet)
          [] g.STATE = OPENED /\ again -> Begin(p, LinkDown(g), packet)
          [] OTHER -> h

Close(p, f, packet) ==
    CASE f.STATE = STARTING -> Goto(f, INITIAL)
      [] f.STATE = STOPPED -> Goto(f, CLOSED)
      [] f.STATE = STOPPING -> Goto(f, CLOSING)
      [] f.STATE \in REQ_SENT .. ACK_SENT -> Goto(SendTermReq(f, packet), CLOSING)
      [] f.STATE = OPENED -> Goto(SendTermReq(LinkDown(f), packet), CLOSING)
      [] OTHER -> f

-----------------------------------------------------------------------------
(* The receivers of PPPFSM_input.                                          *)

RecvConfReq(p, f, m, packet) ==
    LET g == CASE f.STATE = OPENED -> Begin(p, LinkDown(f), packet)
               [] f.STATE = STOPPED -> Begin(p, f, packet)
               [] OTHER -> f
        reply == Answer(p, m.opts, g.NAKS >= MaxNaks)
        h == Post(g, Send(Packet(reply.code, m.id, reply.opts), 0))
        agreed == [h EXCEPT !.SEND_OPT = [id |-> m.id, opts |-> m.opts]]
        up == Up(p, agreed, packet)
    IN  CASE f.STATE = CLOSED -> SendTermAck(f, m, FALSE)
          [] f.STATE \in {CLOSING, STOPPING} -> f
          [] OTHER ->
               IF reply.code = "ACK"
               THEN IF h.STATE # ACK_RCVD
                    THEN [agreed EXCEPT !.STATE = ACK_SENT, !.NAKS = 0]
                    ELSE [up EXCEPT !.NAKS = IF up.LINK THEN 0 ELSE @]
               ELSE [h EXCEPT !.STATE = IF @ = ACK_RCVD THEN @ ELSE REQ_SENT,
                              !.NAKS = IF reply.code = "NAK" THEN @ + 1 ELSE @]

(* Mutant: an answer to an earlier request counts.                         *)
IsForUs_Any(f, m) == m.code = "ACK" => m.opts = f.RECV_NEG

(* Only the answer to the last request counts, and an acknowledgement must *)
(* repeat its options, or have none at all, which is accepted and changes  *)
(* nothing (LCP_recvconfack).                                              *)
IsForUs(f, m) ==
    /\ m.id = f.REQID
    /\ m.code = "ACK" => m.opts = f.RECV_NEG \/ m.opts = Nothing

Acknowledged(f, m) ==
    IF f.STATE < OPENED /\ m.opts # Nothing
    THEN [f EXCEPT !.RECV_OPT = [id |-> m.id, opts |-> m.opts]]
    ELSE f

RecvConfAck(p, f, m) ==
    LET g == Acknowledged(f, m)
    IN  CASE f.STATE \in {CLOSED, STOPPED} -> SendTermAck(g, m, FALSE)
          [] f.STATE = REQ_SENT -> Post(Goto(g, ACK_RCVD), Restart)
          [] f.STATE = ACK_RCVD -> Begin(p, g, TRUE)
          [] f.STATE = ACK_SENT -> Up(p, g, TRUE)
          [] f.STATE = OPENED -> Begin(p, LinkDown(g), TRUE)
          [] OTHER -> g

RecvConfNak(p, f, m) ==
    LET g == IF f.STATE < OPENED THEN [f EXCEPT !.RECV_NEG = Revised(p, @, m)] ELSE f
    IN  CASE f.STATE \in {CLOSED, STOPPED} -> SendTermAck(g, m, FALSE)
          [] f.STATE \in {REQ_SENT, ACK_SENT} -> SendConfReq(p, g, TRUE)
          [] f.STATE = ACK_RCVD -> Begin(p, g, TRUE)
          [] f.STATE = OPENED -> Begin(p, LinkDown(g), TRUE)
          [] OTHER -> g

(* Mutant: the upper layers are not told that the peer closes the link.    *)
RecvTermReq_Silent(p, f, m) ==
    CASE f.STATE \in {ACK_RCVD, ACK_SENT} -> SendTermAck(Goto(f, REQ_SENT), m, FALSE)
      [] f.STATE = OPENED -> Goto(SendTermAck(f, m, TRUE), STOPPING)
      [] OTHER -> SendTermAck(f, m, FALSE)

RecvTermReq(p, f, m) ==
    CASE f.STATE \in {ACK_RCVD, ACK_SENT} -> SendTermAck(Goto(f, REQ_SENT), m, FALSE)
      [] f.STATE = OPENED -> Goto(SendTermAck(LinkDown(f), m, TRUE), STOPPING)
      [] OTHER -> SendTermAck(f, m, FALSE)

RecvTermAck(p, f, m) ==
    CASE f.STATE \in {CLOSING, STOPPING} -> Goto(Post(f, Stop), f.STATE - 2)
      [] f.STATE = ACK_RCVD -> Goto(f, REQ_SENT)
      [] f.STATE = OPENED -> Begin(p, LinkDown(f), TRUE)
      [] OTHER -> f

(* Mutant: the last time-out of a negotiation is taken for any other.      *)
Timeout_Forgives(f, hard) ==
    CASE f.STATE \in {CLOSING, STOPPING} /\ hard -> Goto(f, f.STATE - 2)
      [] f.STATE = ACK_RCVD -> Goto(f, REQ_SENT)
      [] OTHER -> f

(* Mutant: the last time-out is not told from the others.                  *)
Timeout_Soft(f, hard) == IF f.STATE = ACK_RCVD THEN Goto(f, REQ_SENT) ELSE f

(* PPPFSM_timeout: hard says that no retry is left.                        *)
Timeout(f, hard) ==
    CASE f.STATE \in {CLOSING, STOPPING} /\ hard -> Goto(f, f.STATE - 2)
      [] f.STATE \in REQ_SENT .. ACK_SENT /\ hard -> Goto(f, STOPPED)
      [] f.STATE = ACK_RCVD /\ ~hard -> Goto(f, REQ_SENT)
      [] OTHER -> f

-----------------------------------------------------------------------------
(* Actions.                                                                *)

Fresh(p) == [STATE |-> INITIAL, CURID |-> 0, REQID |-> -1, NAKS |-> 0,
             OPTIONS |-> {}, RECV_NEG |-> <<>>, RECV_OPT |-> NoOptions,
             SEND_OPT |-> NoOptions, LINK |-> FALSE, ST_CP_NOBUFS |-> 0, out |-> <<>>]

PppInit ==
    /\ setup \in Setups
    /\ fsm = [p \in Peers |-> Fresh(p)]
    /\ rexmit = [p \in Peers |-> <<>>]
    /\ expired = [p \in Peers |-> <<>>]
    /\ wire = [p \in Peers |-> <<>>]
    /\ todo = setup.calls
    /\ losses = setup.losses
    /\ failures = setup.failures

(* What may be left of s when some of its elements are lost                *)
Remains(s) ==
    UNION {{[i \in 1 .. m |-> s[at[i]]] :
               at \in {a \in [1 .. m -> 1 .. Len(s)] :
                         \A i, j \in 1 .. m : i < j => a[i] < a[j]}} : m \in 0 .. Len(s)}

(* The machine of p becomes f.  When memory is short the messages f adds   *)
(* for the transmit task are lost, one or several: RTCS_msg_alloc fails,   *)
(* the sender returns an error, and pppfsm.c does not look at it.          *)
Become(p, packet, f) ==
    \/ packet /\ fsm' = [fsm EXCEPT ![p] = f] /\ UNCHANGED failures
    \/ /\ failures > 0
       /\ LET out == fsm[p].out
          IN  \E rest \in Remains(SubSeq(f.out, Len(out) + 1, Len(f.out))) :
                  LET kept == out \o rest
                      lost == Len(f.out) - Len(kept)
                      cost == lost + f.ST_CP_NOBUFS - fsm[p].ST_CP_NOBUFS
                  IN  /\ cost \in 1 .. failures
                      /\ failures' = failures - cost
                      /\ fsm' = [fsm EXCEPT ![p] = [f EXCEPT !.out = kept]]

(* The next call on p: PPP_open, PPP_close, PPP_lowerup or PPP_lowerdown.  *)
Called(p, op, packet, f) ==
    /\ todo[p] # <<>> /\ Head(todo[p]).op = op
    /\ setup.patient => expired[p] = <<>>
    /\ f.CURID <= setup.ids
    /\ todo' = [todo EXCEPT ![p] = Tail(@)]
    /\ Become(p, packet, f)
    /\ UNCHANGED <<rexmit, expired, wire, losses, setup>>

PPPFSM_lowerup(p) ==
    \E packet \in BOOLEAN : Called(p, "lowerup", packet, LowerUp(p, fsm[p], packet))

PPPFSM_lowerdown(p) == Called(p, "lowerdown", TRUE, LowerDown(p, fsm[p]))

PPPFSM_open(p) ==
    /\ todo[p] # <<>>
    /\ \E packet \in BOOLEAN :
           Called(p, "open", packet, Open(p, fsm[p], packet, Head(todo[p]).options))

PPPFSM_close(p) ==
    \E packet \in BOOLEAN : Called(p, "close", packet, Close(p, fsm[p], packet))

(* The receive task hands a frame to PPPFSM_input, which drops it while    *)
(* the lower layer is down or the machine not open.                        *)
Received(p, code, packet, f) ==
    /\ wire[p] # <<>> /\ Head(wire[p]).code \in code
    /\ fsm[p].STATE >= CLOSED
    /\ f.CURID <= setup.ids
    /\ Become(p, packet, f)
    /\ wire' = [wire EXCEPT ![p] = Tail(@)]
    /\ UNCHANGED <<rexmit, expired, todo, losses, setup>>

InputConfReq(p) ==
    /\ wire[p] # <<>>
    /\ \E packet \in BOOLEAN :
           Received(p, {"REQ"}, packet, RecvConfReq(p, fsm[p], Head(wire[p]), packet))

InputConfAck(p) ==
    /\ wire[p] # <<>> /\ IsForUs(fsm[p], Head(wire[p]))
    /\ Received(p, {"ACK"}, TRUE, RecvConfAck(p, fsm[p], Head(wire[p])))

InputConfNak(p) ==
    /\ wire[p] # <<>> /\ IsForUs(fsm[p], Head(wire[p]))
    /\ Received(p, {"NAK", "REJ"}, TRUE, RecvConfNak(p, fsm[p], Head(wire[p])))

InputTermReq(p) ==
    /\ wire[p] # <<>>
    /\ Received(p, {"TERM_REQ"}, TRUE, RecvTermReq(p, fsm[p], Head(wire[p])))

InputTermAck(p) ==
    /\ wire[p] # <<>>
    /\ Received(p, {"TERM_ACK"}, TRUE, RecvTermAck(p, fsm[p], Head(wire[p])))

InputDropped(p) ==
    /\ wire[p] # <<>>
    /\ \/ fsm[p].STATE < CLOSED
       \/ Head(wire[p]).code \in {"ACK", "NAK", "REJ"} /\ ~IsForUs(fsm[p], Head(wire[p]))
    /\ wire' = [wire EXCEPT ![p] = Tail(@)]
    /\ UNCHANGED <<fsm, rexmit, expired, todo, losses, failures, setup>>

Input(p) ==
    \/ InputConfReq(p) \/ InputConfAck(p) \/ InputConfNak(p)
    \/ InputTermReq(p) \/ InputTermAck(p) \/ InputDropped(p)

-----------------------------------------------------------------------------
(* The transmit task.  It takes a message unless it has unlinked a packet  *)
(* whose time is up.                                                       *)

Write(p, m) == wire' = [wire EXCEPT ![Peer(p)] = Append(@, m.pkt)]

(* A packet to be repeated waits in the queue at the place its time puts   *)
(* it, which the intervals (3, 6 and 10 seconds) leave open.               *)
Enqueue(p, m) ==
    \E i \in 1 .. Len(rexmit[p]) + 1 :
        rexmit' = [rexmit EXCEPT ![p] = InsertAt(@, i, m)]

Taken(p, cmd) ==
    /\ expired[p] = <<>> /\ fsm[p].out # <<>> /\ Head(fsm[p].out).cmd = cmd
    /\ fsm' = [fsm EXCEPT ![p].out = Tail(@)]
    /\ UNCHANGED <<expired, todo, losses, failures, setup>>

TakeSend(p) ==
    /\ Taken(p, "SEND")
    /\ LET m == Head(fsm[p].out)
       IN  /\ Write(p, m)
           /\ IF m.retry > 0 THEN Enqueue(p, m) ELSE UNCHANGED rexmit

(* Both commands act on the first packet of the protocol, and only on it.  *)
TakeRestart(p) ==
    /\ Taken(p, "RESTART")
    /\ rexmit' = IF rexmit[p] = <<>> THEN rexmit
                 ELSE [rexmit EXCEPT ![p][1].retry = setup.conf]
    /\ UNCHANGED wire

TakeStop(p) ==
    /\ Taken(p, "STOP")
    /\ rexmit' = IF rexmit[p] = <<>> THEN rexmit ELSE [rexmit EXCEPT ![p] = Tail(@)]
    /\ UNCHANGED wire

(* Nothing is under way: what a timer longer than a round trip waits for.  *)
Quiet ==
    \A p \in Peers : wire[p] = <<>> /\ fsm[p].out = <<>> /\ expired[p] = <<>>

(* The time of the first packet is up and it is unlinked.                  *)
Expire(p) ==
    /\ rexmit[p] # <<>> /\ expired[p] = <<>>
    /\ setup.patient => Quiet
    /\ expired' = [expired EXCEPT ![p] = <<Head(rexmit[p])>>]
    /\ rexmit' = [rexmit EXCEPT ![p] = Tail(@)]
    /\ UNCHANGED <<fsm, wire, todo, losses, failures, setup>>

(* PPPFSM_timeout is called with it; it is sent again while it has retries *)
TimedOut(p) ==
    /\ expired[p] # <<>>
    /\ LET m == expired[p][1]
       IN  /\ fsm' = [fsm EXCEPT ![p] = Timeout(@, m.retry = 1)]
           /\ IF m.retry = 1 THEN UNCHANGED <<rexmit, wire>>
              ELSE Write(p, m) /\ Enqueue(p, [m EXCEPT !.retry = @ - 1])
    /\ expired' = [expired EXCEPT ![p] = <<>>]
    /\ UNCHANGED <<todo, losses, failures, setup>>

(* The line loses the next frame.                                          *)
Lose(p) ==
    /\ losses > 0 /\ wire[p] # <<>>
    /\ losses' = losses - 1
    /\ wire' = [wire EXCEPT ![p] = Tail(@)]
    /\ UNCHANGED <<fsm, rexmit, expired, todo, failures, setup>>

Call(p) == PPPFSM_lowerup(p) \/ PPPFSM_lowerdown(p) \/ PPPFSM_open(p) \/ PPPFSM_close(p)
Transmit(p) == TakeSend(p) \/ TakeRestart(p) \/ TakeStop(p) \/ TimedOut(p)

PppNext == \E p \in Peers : Call(p) \/ Input(p) \/ Transmit(p) \/ Expire(p) \/ Lose(p)

PppSpec == PppInit /\ [][PppNext]_pppVars

(* Every thread that can go on does; a timer expires although the other    *)
(* end's, running out first again and again, keeps the line busy.          *)
PppFairSpec ==
    /\ PppSpec
    /\ \A p \in Peers : /\ WF_pppVars(Call(p)) /\ WF_pppVars(Input(p))
                        /\ WF_pppVars(Transmit(p)) /\ SF_pppVars(Expire(p))

-----------------------------------------------------------------------------
(* Properties.                                                             *)

(* Every field keeps to its values: identifiers stay within the bound, the *)
(* retries of a packet within its limit, and the options asked for, and    *)
(* those of every frame, within the two that exist.  (So no end sends the  *)
(* empty acknowledgement that IsForUs accepts.)                            *)
PppTypeOK ==
    /\ setup \in Setups /\ losses \in 0 .. setup.losses
    /\ failures \in 0 .. setup.failures
    /\ \A p \in Peers :
        /\ fsm[p].STATE \in INITIAL .. OPENED
        /\ fsm[p].CURID \in 0 .. setup.ids
        /\ fsm[p].REQID \in -1 .. fsm[p].CURID - 1
        /\ fsm[p].NAKS \in 0 .. MaxNaks
        /\ fsm[p].LINK \in BOOLEAN
        /\ DOMAIN fsm[p].RECV_NEG \subseteq {"accm", "ap"}
        /\ \A i \in DOMAIN wire[p] : DOMAIN wire[p][i].opts \subseteq {"accm", "ap"}
        /\ \A i \in DOMAIN rexmit[p] : rexmit[p][i].retry \in 1 .. setup.conf
        /\ Len(expired[p]) <= 1

(* Memory has never been short.                                            *)
Supplied == failures = setup.failures

(* An end that lets data pass (LINK_STATE) receives with the options of    *)
(* its last request, all of them acknowledged.  While both ends do, no     *)
(* timer is hasty and memory is not short, each sends with the options the *)
(* other receives with: no order of requests, answers, repeats, time-outs  *)
(* and losses opens the two ends on different terms.                       *)
OptionsAgree ==
    \A p \in Peers : fsm[p].LINK =>
        /\ fsm[p].RECV_OPT = [id |-> fsm[p].REQID, opts |-> fsm[p].RECV_NEG]
        /\ setup.patient /\ Supplied /\ fsm[Peer(p)].LINK =>
               fsm[Peer(p)].SEND_OPT = fsm[p].RECV_OPT

(* Data passes exactly in the state OPENED, and then only if a peer that   *)
(* must authenticate itself has agreed to: every way out of OPENED calls   *)
(* linkdown, whichever thread takes it.                                    *)
LinkFollowsState ==
    \A p \in Peers : fsm[p].LINK = (fsm[p].STATE = OPENED /\ Admits(p, fsm[p]))

(* Packets that will be repeated, of n, once the transmit task has taken   *)
(* one message, or all those before it; and those of p.                    *)
Counted(n, m) ==
    IF m.cmd = "SEND" THEN n + (IF m.retry > 0 THEN 1 ELSE 0)
    ELSE IF m.cmd = "STOP" /\ n > 0 THEN n - 1 ELSE n

TimersOf(n, out) ==
    LET left[i \in 0 .. Len(out)] == IF i = 0 THEN n ELSE Counted(left[i - 1], out[i])
    IN  left[Len(out)]

Timers(p) == TimersOf(Len(rexmit[p]) + Len(expired[p]), fsm[p].out)

(* Unless memory was short, a machine that waits for an answer has a       *)
(* packet that will be repeated, so that it neither waits for ever nor     *)
(* past its last retry, even when commands and time-outs cross.  With      *)
(* timers longer than a round trip it has exactly one, and a machine that  *)
(* waits for nothing has none: stop commands never miss their packet.      *)
(* (When no packet is had for a request, or its message or that for the    *)
(* timer is lost, the machine waits all the same: see the README.  With    *)
(* conf = 1 the time-out of an acknowledged request is final.  If it       *)
(* crosses a request of the peer that ends in LCP_up's refusal, it is      *)
(* taken for that of the terminate request, and the machine closes with a  *)
(* timer left over.)                                                       *)
WaitIsTimed ==
    /\ PppTypeOK
    /\ Supplied =>
           \A p \in Peers :
               /\ Negotiating(fsm[p].STATE) => Timers(p) > 0
               /\ setup.patient => Timers(p) = IF Negotiating(fsm[p].STATE) THEN 1 ELSE 0

(* The secrets of the two ends allow the authentication each insists on.   *)
Compatible ==
    \A p \in Peers : setup.remote[p] # {} => Wish(p).ap \in setup.local[Peer(p)]

(* Calls that only start an end.                                           *)
OnlyStarts(p) == \A i \in DOMAIN setup.calls[p] : setup.calls[p][i].op \in {"lowerup", "open"}

(* An end has sent a request as often as it may, without an answer.        *)
GivesUp ==
    \E p \in Peers : expired[p] # <<>> /\ expired[p][1].retry = 1
                                      /\ expired[p][1].pkt.code # "TERM_ACK"

(* With timers longer than a round trip, and memory enough, the            *)
(* negotiation comes to rest, whatever was called.  If both ends were only *)
(* started and none uses up its retries, they end up open, or, when one    *)
(* insists on an authentication the other cannot give, closed to data.     *)
Settles ==
    setup.patient /\ []Supplied =>
        /\ <>[](\A p \in Peers : ~Negotiating(fsm[p].STATE))
        /\ (\A p \in Peers : OnlyStarts(p)) =>
               \/ <>[](\A p \in Peers : fsm[p].LINK = Compatible)
               \/ <>GivesUp
=============================================================================
