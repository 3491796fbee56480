-------------------------------- MODULE NetCalls -------------------------------
(***************************************************************************)
(* libchaos-net: the lines its parser takes, the one rule that answers a   *)
(* call, the wrappers, and what chaos-init decides for the same system     *)
(* calls.  A selector is a record: kind, host and port, and len, the       *)
(* length of its text.  An end of a socket is one with a definite host.    *)
(* DUP, which keeps received bytes from one call to the next, is NetDup's. *)
(***************************************************************************)
EXTENDS RuleFile

InetKinds == {"tcp4", "tcp6", "udp4", "udp6"}
NetSelector(kind, host, port, len) == [kind |-> kind, host |-> host, port |-> port, len |-> len]
AnyEnd == NetSelector("any", "*", 0, 1)
NetEnd(kind, host, port) == [kind |-> kind, host |-> host, port |-> port]
NoEnd == NetEnd("none", "", 0)

NetSelectorOk(sel) == sel = AnyEnd \/ sel.kind \in InetKinds \/ (sel.kind = "unix" /\ sel.host # "")

NetMatches(sel, end) ==
  /\ end # NoEnd
  /\ \/ sel.kind = "any"
     \/ sel.kind = end.kind /\ sel.port = end.port /\ sel.host \in {"*", end.host}
(* an exact path of a unix socket says more than a host and a port *)
NetRank(sel) ==
  CASE sel.kind = "any" -> 1 [] sel.kind # "any" /\ sel.host = "*" -> 2
    [] sel.kind = "unix" /\ sel.host # "*" -> 4 [] OTHER -> 3

NetOps == {"bind", "listen", "connect", "accept", "socket", "shutdown", "poll", "send", "recv", "close"}

(* the errno is the effect field of the line *)
NetErrnos ==
  {"ECONNREFUSED", "ETIMEDOUT", "ECONNRESET", "EHOSTUNREACH", "ENETUNREACH", "EADDRINUSE",
   "EADDRNOTAVAIL", "EAFNOSUPPORT", "EPROTONOSUPPORT", "EPIPE", "ENOTCONN", "EOPNOTSUPP",
   "EINVAL", "EINTR", "ENOMEM", "ENOBUFS", "EMFILE", "ENFILE", "EAGAIN"}

NetEffectAllowed(op, eff) ==
  \/ eff \in {"LATENCY", "ERRNO"}
  \/ eff \in {"CORRUPT", "TRICKLE", "DUP"} /\ op = "recv"
  \/ eff = "TIMEOUT" /\ op = "poll"
  \/ eff = "RESET" /\ op = "close"

(* before there is a socket only its kind is known *)
NetSelectorAllowed(op, sel) ==
  op = "socket" => sel.kind = "any" \/ (sel.host = "*" /\ sel.port = 0)

NetLatencyOk(val) == IsMillis(val)
NetLineOk(l) ==
  /\ NetSelectorOk(l.sel) /\ l.op \in NetOps /\ NetSelectorAllowed(l.op, l.sel)
  /\ CASE l.eff = "LATENCY" -> NetLatencyOk(l.val)
       [] l.eff = "TRICKLE" -> NetLatencyOk(l.val) /\ Numerals[l.val] # 0
       [] l.eff = "ERRNO"   -> l.val \in NetErrnos /\ ProbabilityValid(l.prob)
       [] OTHER             -> ProbabilityValid(l.prob)
  /\ NetEffectAllowed(l.op, l.eff)

(* chaos-init's copy of the parser takes no rule it could not honour *)
InitNetSupported(l) ==
  \/ l.eff = "ERRNO" /\ l.op # "close"
  \/ l.eff \in {"LATENCY", "TIMEOUT"}
NetParseBuffer(lines, supervised) ==
  Parsed(lines, LAMBDA l : NetLineOk(l) /\ (supervised => InitNetSupported(l)))

-----------------------------------------------------------------------------
(* Selection: one rule answers, whatever its effect.  A call with two ends   *)
(* takes the better of their rules, the first end's when they are equal.     *)

NetBetter(r, s) ==
  \/ NetRank(r.line.sel) > NetRank(s.line.sel)
  \/ NetRank(r.line.sel) = NetRank(s.line.sel) /\ r.line.sel.len > s.line.sel.len

NetSelectBetter(rules, op, end) ==
  Chosen(rules, SelectRule(rules, LAMBDA l : l.op = op /\ NetMatches(l.sel, end),
                                  LAMBDA l : NetRank(l.sel), LAMBDA l : l.sel.len))

(* no rule of the operation could do better than this one, so the other end  *)
(* need not be asked for                                                     *)
NetTargets(rules, op) == \E i \in DOMAIN rules : rules[i].line.op = op
NetFinal(rules, op, found) ==
  \A r \in found : \A i \in DOMAIN rules : rules[i].line.op = op => ~NetBetter(rules[i], r)
NetEitherFirst(first, second) == IF first = {} THEN second ELSE first  \* mutant: the second end only when the first has no rule
NetEither(first, second) ==
  IF first = {} \/ \E r \in first, s \in second : NetBetter(s, r) THEN second ELSE first

NetConnected(rules, op, first, second) ==
  IF first # {} /\ NetFinal(rules, op, first) THEN first ELSE NetEither(first, second)
NetMatchConnected(lib, call, first, second) ==
  IF ~NetTargets(lib.rules, call.op) \/ ~call.socket THEN {}
  ELSE NetConnected(lib.rules, call.op, NetSelectBetter(lib.rules, call.op, first),
                                        NetSelectBetter(lib.rules, call.op, second))

NetActivityEnd(local, peer) == IF local # NoEnd THEN local ELSE peer

(* the first of several descriptors or messages that has a rule *)
NetFirst(found) ==
  LET some == {i \in DOMAIN found : found[i] # {}} IN IF some = {} THEN {} ELSE found[Min(some)]
NetEach(rules, op, ends) == [i \in DOMAIN ends |-> NetSelectBetter(rules, op, ends[i])]
NetWaitMatch(lib, call) == NetFirst(NetEach(lib.rules, call.op, call.watched))
(* a message without an address goes to the connected end *)
NetBatch(lib, call, connected) ==
  NetFirst([i \in DOMAIN call.watched |->
              IF call.watched[i] = NoEnd THEN connected
              ELSE NetSelectBetter(lib.rules, call.op, call.watched[i])])

-----------------------------------------------------------------------------
(* The library's copy of the loading code *)

NetInit == FreshLib
NetReadFile(f) == ReadFile(f)
NetAttachHits(lib, lines) == AttachHits(lib, lines)
NetRefresh(lib, f, supervised) == Refresh(lib, f, TakesFile(f, NetParseBuffer(f.lines, supervised)))
NetReportHits(lib) == ReportHits(lib)
NetAfterFork(lib) == AfterFork(lib)

(* the rule of a call is looked up once, as the call begins; sent bytes      *)
(* answer to the peer's rules first, received ones to the local end's        *)
NetSent(lib, call) == NetMatchConnected(lib, call, call.peer, call.local)
NetReceivedBy(lib, call) == NetMatchConnected(lib, call, call.local, call.peer)
NetMatch(lib, call) ==
  CASE call.reach \in {"spec", "address"} -> NetSelectBetter(lib.rules, call.op, call.addr)
    [] call.reach = "local"    -> NetSelectBetter(lib.rules, call.op, call.local)
    [] call.reach = "activity" -> NetSelectBetter(lib.rules, call.op, NetActivityEnd(call.local, call.peer))
    [] call.reach = "sender" /\ call.addr # NoEnd -> NetSelectBetter(lib.rules, call.op, call.addr)
    [] call.reach = "sender" /\ call.addr = NoEnd -> NetSent(lib, call)
    [] call.reach = "receiver" -> NetReceivedBy(lib, call)
    [] call.reach = "batch"    -> NetBatch(lib, call, NetSent(lib, call))
    [] call.reach = "watched"  -> NetWaitMatch(lib, call)

-----------------------------------------------------------------------------
(* Wrappers.  reach: the end or ends a call is matched by. *)

NetWrapper(name, op, reach, phases, sized) ==
  [lib |-> "net", fn |-> name, op |-> op, reach |-> reach, phases |-> phases,
   sized |-> sized]

NetPlain == <<"LATENCY", "ERRNO", "CALL">>
NetSocket     == NetWrapper("socket", "socket", "spec", NetPlain, FALSE)
NetSocketpair == NetWrapper("socketpair", "socket", "spec", NetPlain, FALSE)
NetBind       == NetWrapper("bind", "bind", "address", NetPlain, FALSE)
NetConnect    == NetWrapper("connect", "connect", "address", NetPlain, FALSE)
NetListen     == NetWrapper("listen", "listen", "local", NetPlain, FALSE)
NetAccept     == NetWrapper("accept", "accept", "local", NetPlain, FALSE)
NetAccept4    == NetWrapper("accept4", "accept", "local", NetPlain, FALSE)
NetShutdown   == NetWrapper("shutdown", "shutdown", "activity", NetPlain, FALSE)

NetSend     == NetWrapper("send", "send", "sender", NetPlain, TRUE)
NetSendto   == NetWrapper("sendto", "send", "sender", NetPlain, TRUE)
NetSendmsg  == NetWrapper("sendmsg", "send", "sender", NetPlain, TRUE)
NetSendmmsg == NetWrapper("sendmmsg", "send", "batch", NetPlain, TRUE)
NetWrite    == NetWrapper("write", "send", "sender", NetPlain, TRUE)
NetWritev   == NetWrapper("writev", "send", "sender", NetPlain, TRUE)

(* a receive may be cut short before it, and its bytes altered after it *)
NetReceive  == <<"LATENCY", "ERRNO", "TRICKLE", "CALL", "CORRUPT">>
NetRecv     == NetWrapper("recv", "recv", "receiver", NetReceive, TRUE)
NetRecvfrom == NetWrapper("recvfrom", "recv", "receiver", NetReceive, TRUE)
NetRecvmsg  == NetWrapper("recvmsg", "recv", "receiver", NetReceive, TRUE)
NetRecvmmsg == NetWrapper("recvmmsg", "recv", "receiver", <<"LATENCY", "ERRNO", "CALL", "CORRUPT">>, TRUE)
NetRead     == NetWrapper("read", "recv", "receiver", NetReceive, TRUE)
NetReadv    == NetWrapper("readv", "recv", "receiver", NetReceive, TRUE)
NetTrickles(call, r) == call.stream /\ ~call.waitall /\ call.size > Numerals[r.line.val]

(* TIMEOUT waits the time given and says nothing came; a wait without end is *)
(* left alone                                                                *)
NetWaits == <<"LATENCY", "ERRNO", "TIMEOUT", "CALL">>
NetPoll    == NetWrapper("poll", "poll", "watched", NetWaits, FALSE)
NetPpoll   == NetWrapper("ppoll", "poll", "watched", NetWaits, FALSE)
NetSelect  == NetWrapper("select", "poll", "watched", NetWaits, FALSE)
NetPselect == NetWrapper("pselect", "poll", "watched", NetWaits, FALSE)
NetEpollWait  == NetWrapper("epoll_wait", "poll", "watched", NetWaits, FALSE)
NetEpollPwait == NetWrapper("epoll_pwait", "poll", "watched", NetWaits, FALSE)
NetTimesOut(call) == call.timeout >= 0

(* RESET makes the close an abort; an error is reported once it is closed *)
NetClose == NetWrapper("close", "close", "activity", <<"LATENCY", "RESET", "CALL", "ERRNO">>, FALSE)

NetWrappers ==
  {NetSocket, NetSocketpair, NetBind, NetConnect, NetListen, NetAccept, NetAccept4, NetShutdown,
   NetSend, NetSendto, NetSendmsg, NetSendmmsg, NetWrite, NetWritev,
   NetRecv, NetRecvfrom, NetRecvmsg, NetRecvmmsg, NetRead, NetReadv,
   NetPoll, NetPpoll, NetSelect, NetPselect, NetEpollWait, NetEpollPwait, NetClose}

-----------------------------------------------------------------------------
(* chaos-init: the same calls, seen as system calls.  It asks for both ends  *)
(* of a listening socket too, and gives a batch of receives no size; of the  *)
(* calls files share with sockets it takes those on a socket                 *)

InitNetEnds(lib, call, first, second) ==
  NetEither(NetSelectBetter(lib.rules, call.op, first), NetSelectBetter(lib.rules, call.op, second))
InitNetMatch(lib, call) ==
  CASE call.reach \in {"local", "receiver"} -> InitNetEnds(lib, call, call.local, call.peer)
    [] call.reach = "sender" /\ call.addr = NoEnd -> InitNetEnds(lib, call, call.peer, call.local)
    [] call.reach = "batch" -> NetBatch(lib, call, InitNetEnds(lib, call, call.peer, call.local))
    [] OTHER -> NetMatch(lib, call)
InitNetShared == {"read", "readv", "write", "writev", "close"}
InitNetTakes(call) == call.fn \in InitNetShared => call.socket

InitNetSized == {"read", "readv", "write", "writev", "sendto", "recvfrom", "sendmsg", "recvmsg", "sendmmsg"}
InitNetCall(nr, op, reach) ==
  NetWrapper(nr, op, reach, CASE op = "poll" -> NetWaits [] op = "close" -> <<"LATENCY", "CALL">> [] OTHER -> NetPlain,
             nr \in InitNetSized)
InitNetWaits == {"poll", "ppoll", "select", "pselect6", "epoll_wait", "epoll_pwait", "epoll_pwait2"}
InitNetCalls ==
  {InitNetCall(nr, "socket", "spec") : nr \in {"socket", "socketpair"}}
  \cup {InitNetCall(nr, nr, "address") : nr \in {"bind", "connect"}}
  \cup {InitNetCall("listen", "listen", "local")}
  \cup {InitNetCall(nr, "accept", "local") : nr \in {"accept", "accept4"}}
  \cup {InitNetCall(nr, nr, "activity") : nr \in {"shutdown", "close"}}
  \cup {InitNetCall(nr, "send", "sender") : nr \in {"sendto", "sendmsg", "write", "writev"}}
  \cup {InitNetCall("sendmmsg", "send", "batch")}
  \cup {InitNetCall(nr, "recv", "receiver") : nr \in {"recvfrom", "recvmsg", "recvmmsg", "read", "readv"}}
  \cup {InitNetCall(nr, "poll", "watched") : nr \in InitNetWaits}
=============================================================================
