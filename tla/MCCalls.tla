-------------------------------- MODULE MCCalls --------------------------------
(***************************************************************************)
(* Rule files and arguments for Calls: per library two files whose lines   *)
(* overlap, one with a line that is refused, and none.                     *)
(***************************************************************************)
EXTENDS Calls

MCScenes == ({"preload"} \X {"time", "memory", "process", "io", "net", "dns"})
            \cup ({"init"} \X {"memory", "process", "io", "net"})

MCMaxCalls == [time |-> 3, memory |-> 2, process |-> 2, dns |-> 2, io |-> 2, net |-> 2]
MCMaxEdits == [time |-> 1, memory |-> 2, process |-> 2, dns |-> 2, io |-> 1, net |-> 1]

First(l, n) == [l EXCEPT !.policy.first = n]
From(l, n)  == [l EXCEPT !.policy.from = n]
Until(l, n) == [l EXCEPT !.policy.until = n]
Above(l, n) == [l EXCEPT !.policy.above = n]
Half(l) == [l EXCEPT !.prob = "0.5"]

(* one file written just before it is read, one gone, one unreadable *)
Found4(one, two, bad) ==
  <<File("file", "one", one), [File("file", "two", two) EXCEPT !.recent = TRUE],
    File("file", "bad", bad), Missing, File("denied", "denied", one)>>

TimeBad == Line(<<"usleep">>, "", "OFFSET", "5")
Reversed == Until(Half(Line(<<"clock_gettime", "realtime">>, "", "REGRESS", "5")), 1)
TimeOne == <<Reversed, Line(<<"*">>, "", "ERRNO", "EINTR"),
             Blank, Line(<<"clock_gettime">>, "", "OFFSET", "5"),
             Half(Line(<<"nanosleep">>, "", "ERRNO", "EINVAL"))>>
TimeTwo == <<Reversed, From(Line(<<"*">>, "", "LATENCY", "1"), 1),
             Line(<<"clock_gettime", "monotonic">>, "", "OFFSET", "-5"), First(Line(<<"clock_gettime">>, "", "OFFSET", "5"), 1)>>

MemoryBad == Line(<<"mprotect", "anon">>, "", "LATENCY", "1")
MemoryOne == <<Line(<<"*">>, "", "LATENCY", "1"), Above(Line(<<"mmap">>, "", "LATENCY", "5"), 1),
               First(Line(<<"mmap", "anon">>, "", "ERRNO", "ENOMEM"), 1), Half(Line(<<"mmap">>, "", "ERRNO", "EINVAL"))>>
MemoryTwo == <<Line(<<"*">>, "", "LATENCY", "1"), Line(<<"mmap", "file">>, "", "ERRNO", "EACCES"),
               Until(Line(<<"madvise">>, "", "ERRNO", "EINVAL"), 1)>>

ProcessBad == Line(<<"fork">>, "", "FAIL_AFTER", <<"EAGAIN", "-5">>)
ProcessUnhonoured == Line(<<"posix_spawnp">>, "", "ERRNO", "EAGAIN")
ProcessOne == <<Line(<<"*">>, "", "FAIL_AFTER", <<"EAGAIN", "1">>), Line(<<"fork">>, "", "FAIL_AFTER", <<"EAGAIN", "0">>),
                Half(Line(<<"*">>, "", "LATENCY", "1"))>>
ProcessTwo == <<Line(<<"*">>, "", "FAIL_AFTER", <<"EAGAIN", "1">>), Line(<<"waitpid">>, "", "ERRNO", "ECHILD"),
                ProcessUnhonoured>>

IoLine(sel, op, eff, val) == Line(sel, op, eff, val)
IoBad == IoLine(<<"d">>, "read", "TORN", "")
IoUnhonoured == IoLine(<<"d">>, "write", "TORN", "")
IoOne == <<IoLine(Everywhere, "read", "ERRNO", "EIO"), IoLine(<<"d">>, "read", "LATENCY", "1"),
           IoLine(<<"d", "f">>, "rename_to", "ERRNO", "EIO"), Half(IoLine(<<"l">>, "open", "ERRNO", "ENOENT"))>>
IoTwo == <<IoLine(<<"d">>, "read", "LATENCY", "1"), First(IoLine(<<"d", "f">>, "read", "CORRUPT", ""), 1),
           Above(IoUnhonoured, 2), IoLine(<<"d">>, "close", "LATENCY", "1")>>

TcpEnd == NetEnd("tcp4", "1.1", 80)
UdpEnd == NetEnd("udp4", "1.1", 53)
Tcp == NetSelector("tcp4", "1.1", 80, 12)
TcpAny == NetSelector("tcp4", "*", 80, 11)
NetBad == Line(Tcp, "socket", "ERRNO", "ENOMEM")
NetUnhonoured == Line(Tcp, "recv", "CORRUPT", "")
NetOne == <<Line(AnyEnd, "recv", "LATENCY", "1"), Half(Line(TcpAny, "recv", "TRICKLE", "1")),
            Line(AnyEnd, "poll", "TIMEOUT", ""), Line(TcpAny, "send", "ERRNO", "EPIPE")>>
NetTwo == <<Line(AnyEnd, "recv", "LATENCY", "1"), NetUnhonoured, Line(Tcp, "close", "RESET", ""),
            First(Line(AnyEnd, "close", "ERRNO", "EINTR"), 1)>>
NetThree == <<Line(AnyEnd, "recv", "ERRNO", "EAGAIN"), Line(Tcp, "recv", "LATENCY", "1"),
              Line(AnyEnd, "connect", "LATENCY", "1"), Line(TcpAny, "connect", "ERRNO", "ECONNREFUSED")>>

Lookup(kind, n, len) == DnsSelector("lookup", kind, n, len)
AllNames == Lookup("any", <<>>, 1)
DnsBad == Line(DnsSelector("reverse", "any", <<>>, 8), "", "SHUFFLE", "")
DnsOne == <<Line(AllNames, "", "GAI", "EAI_AGAIN"), Half(Line(Lookup("suffix", <<"b">>, 9), "", "GAI", "EAI_FAIL")),
            Line(Lookup("exact", <<"a", "b">>, 9), "", "OVERRIDE", <<"1.1">>), Line(AllNames, "", "FILTER_FAMILY", "inet4")>>
DnsTwo == <<Line(AllNames, "", "LATENCY", "1"), First(Line(Lookup("suffix", <<"b">>, 9), "", "LIMIT", "1"), 1),
            Line(DnsSelector("reverse", "exact", <<"1.1">>, 10), "", "REWRITE", "c"), Line(AllNames, "", "SHUFFLE", "")>>

MCFiles ==
  [time |-> Found4(TimeOne, TimeTwo, <<TimeBad>>), memory |-> Found4(MemoryOne, MemoryTwo, <<MemoryBad>>),
   process |-> Found4(ProcessOne, ProcessTwo, <<ProcessBad>>), io |-> Found4(IoOne, IoTwo, <<IoBad>>),
   net |-> Found4(NetOne, NetTwo, <<NetBad>>) \o <<File("file", "three", NetThree)>>,
   dns |-> Found4(DnsOne, DnsTwo, <<DnsBad>>)]
MCRefused ==
  [time |-> {TimeBad}, memory |-> {MemoryBad}, process |-> {ProcessBad}, io |-> {IoBad}, net |-> {NetBad},
   dns |-> {DnsBad}]
MCUnhonoured ==
  [time |-> {}, memory |-> {}, process |-> {ProcessUnhonoured},
   io |-> {IoUnhonoured, Above(IoUnhonoured, 2), First(IoLine(<<"d", "f">>, "read", "CORRUPT", ""), 1)},
   net |-> {NetUnhonoured, Half(Line(TcpAny, "recv", "TRICKLE", "1")), Line(Tcp, "close", "RESET", ""),
            First(Line(AnyEnd, "close", "ERRNO", "EINTR"), 1)}, dns |-> {}]

(* names relative to a directory, with dots in them *)
Named(base, path) == IoResolveAt(FALSE, base, path)
ToF == Named(<<"d">>, <<".", "f">>)
ToG == Named(<<"d", "f">>, <<"..", "..", "..", "l", "g">>)
ToOwn == IoResolveAt(TRUE, NoPath, <<"tmp", ".chaos">>)
IoArgs(fds, paths, to, sizes) == [fd : fds, path : paths, to : to, size : sizes]
MCArgs ==
  [time |-> {[clock |-> c, size |-> Unsized] : c \in {0, 1}},
   memory |-> {[anonymous |-> a, size |-> s] : a \in BOOLEAN, s \in {1, 2}},
   process |-> {[size |-> Unsized]},
   io |-> IoArgs({3}, {<<"d", "f">>, <<"l", "g">>}, {NoPath}, {Unsized, 3})
          \cup IoArgs({2}, {<<"d", "f">>}, {NoPath}, {3}) \cup IoArgs({3}, {<<"d", "f">>}, {NoPath}, {1})
          \cup IoArgs({NoFd}, {ToF, ToG, ToOwn}, {NoPath}, {Unsized})
          \cup IoArgs({NoFd}, {ToG}, {ToF}, {Unsized}),
   net |-> {[addr |-> a, local |-> l, peer |-> TcpEnd, watched |-> w, socket |-> TRUE, stream |-> TRUE,
             waitall |-> FALSE, timeout |-> t, size |-> s] :
              a \in {NoEnd, TcpEnd}, l \in {UdpEnd, NoEnd}, w \in {<<>>, <<NoEnd, TcpEnd>>}, t \in {-1, 5}, s \in {Unsized, 2}},
   dns |-> {[dir |-> "lookup", name |-> n, size |-> Unsized] : n \in {<<"b">>, <<"a", "b">>}}
           \cup {[dir |-> "reverse", name |-> <<"1.1">>, size |-> Unsized]}]
=============================================================================
