---------------------------- MODULE NetlinkReply ----------------------------
(***************************************************************************)
(* The replies PRoot makes up for the requests a tracee sends on a fake    *)
(* AF_NETLINK socket (build_fake_netlink_reply(), syscall/enter.c): the    *)
(* messages, their lengths and the buffer they must fit in.                *)
(*                                                                         *)
(* A host h is what PRoot finds: ifaddrs, the entries of getifaddrs(3) in  *)
(* order (none when it fails), and routes, what the kernel sends in each   *)
(* round of a route dump.  A request is [type, dump, whole, family, name,  *)
(* index].  A reply is the sequence of messages and the offset they end at.*)
(***************************************************************************)
EXTENDS Integers, Sequences, FiniteSets, SequencesExt, FiniteSetsExt

CONSTANTS
    MAX_FAKE_NETLINK_REPLY,  \* bytes of the buffer
    MaxSeen,                 \* how many interfaces a dump remembers (64)
    MaxRounds,               \* how many datagrams a route dump takes (64)
    NoName                   \* a request that names no interface

Align(n) == 4 * ((n + 3) \div 4)
NLMSG_HDRLEN == 16
Reply == [msgs |-> << >>, off |-> 0]

\* nl_add_attr(): the attribute is dropped if it would overflow.
AddAttr(off, len) ==
    IF off + Align(4 + len) > MAX_FAKE_NETLINK_REPLY THEN off
    ELSE off + Align(4 + len)

\* A message of type @type about @of: its header, @body, then its attributes.
Message(r, type, of, body, attrs) ==
    LET start == r.off + NLMSG_HDRLEN + body
    IN  IF start > MAX_FAKE_NETLINK_REPLY THEN r
        ELSE [msgs |-> Append(r.msgs, [type |-> type, of |-> of]),
              off  |-> Align(FoldLeft(AddAttr, start, attrs))]

\* nl_build_link(): name, MTU, queue length, state, and the two addresses.
BuildLink(r, i) ==
    Message(r, "NEWLINK", i.name, 16,
            <<i.length + 1, 4, 4, 1>> \o
            (IF i.hwlen > 0 THEN <<i.hwlen, i.hwlen>> ELSE << >>))

\* nl_build_addr(): the address twice, and for IPv4 a label.
BuildAddr(r, i) ==
    Message(r, "NEWADDR", i.name, 8,
            IF i.family = "inet" THEN <<4, 4, i.length + 1>> ELSE <<16, 16>>)

\* nl_build_done(), nl_build_error()
BuildDone(r) == Message(r, "DONE", NoName, 4, << >>)
BuildError(r, errno) == Message(r, "ERROR", errno, 20, << >>)

Loopback(family) ==
    [name |-> "lo", length |-> 2, index |-> 1, hwlen |-> 6, family |-> family]

\* Mutant of Full: an entry is added as long as the buffer is not full.
MutFull(r) == r.off >= MAX_FAKE_NETLINK_REPLY

\* No room for one more entry.
Full(r) == r.off + 256 > MAX_FAKE_NETLINK_REPLY

------------------------------------------------------------------------------
\* Does a single get ask for this interface?
Wanted(req, i) ==
    \/ req.dump
    \/ req.name # NoName /\ i.name = req.name
    \/ req.name = NoName /\ (req.index <= 0 \/ i.index = req.index)

\* build_host_links(): each interface once, as far as they are remembered.
BuildHostLinks(h, req) ==
    LET Step(s, i) ==
            LET noted == IF Cardinality(s.seen) < MaxSeen
                         THEN s.seen \cup {i.name} ELSE s.seen
            IN  CASE s.stop \/ i.name \in s.seen -> s
                  [] ~(s.stop \/ i.name \in s.seen) /\ ~ Wanted(req, i) ->
                        [s EXCEPT !.seen = noted]
                  [] OTHER ->
                        IF Full(s.reply) THEN [s EXCEPT !.stop = TRUE]
                        ELSE [reply |-> BuildLink(s.reply, i), seen |-> noted,
                              stop |-> ~ req.dump]
    IN  FoldLeft(Step, [reply |-> Reply, seen |-> {}, stop |-> FALSE], h.ifaddrs).reply

\* build_host_addrs(): every address of the family, until one does not fit.
BuildHostAddrs(h, req) ==
    LET fits == SelectSeq(h.ifaddrs, LAMBDA i :
                    /\ i.family \in {"inet", "inet6"}
                    /\ req.family \in {"inet", "inet6"} => i.family = req.family)
    IN  FoldLeft(LAMBDA r, i : IF Full(r) THEN r ELSE BuildAddr(r, i), Reply, fits)

\* relay_route_dump(): the messages of the kernel while they fit, and an end.
RelayRouteDump(h) ==
    LET Copy(s, m) ==
            IF s.done THEN s
            ELSE IF s.reply.off + Align(m.len) + 64 > MAX_FAKE_NETLINK_REPLY
            THEN [s EXCEPT !.done = TRUE]
            ELSE [reply |-> [msgs |-> Append(s.reply.msgs,
                                             [type |-> m.type, of |-> NoName]),
                             off  |-> s.reply.off + Align(m.len)],
                  done  |-> m.type = "DONE", saw |-> m.type = "DONE"]
        rounds == SubSeq(h.routes, 1, Min({MaxRounds, Len(h.routes)}))
        end == FoldLeft(Copy, [reply |-> Reply, done |-> FALSE, saw |-> FALSE],
                        FlattenSeq(rounds))
    IN  IF end.reply.off = 0 \/ end.saw THEN end.reply ELSE BuildDone(end.reply)

\* What is answered when the host cannot be enumerated: loopback only.
LoopbackLink(req) ==
    LET lo == IF req.name # NoName THEN req.name = "lo" ELSE req.index \in {0, 1}
    IN  IF req.dump \/ lo THEN BuildLink(Reply, Loopback("packet"))
        ELSE BuildError(Reply, "ENODEV")

LoopbackAddrs(req) ==
    FoldLeft(LAMBDA r, family : IF req.family \in {"unspec", family}
                                THEN BuildAddr(r, Loopback(family)) ELSE r,
             Reply, <<"inet", "inet6">>)

\* build_fake_netlink_reply(): nothing for a request without a whole header.
BuildReply(h, req) ==
    LET Ended(r) == IF req.dump THEN BuildDone(r) ELSE r
        links == BuildHostLinks(h, req)
        addrs == BuildHostAddrs(h, req)
        routes == RelayRouteDump(h)
    IN  CASE ~ req.whole -> Reply
          [] req.whole /\ req.type = "GETLINK" ->
                Ended(IF links.msgs = << >> THEN LoopbackLink(req) ELSE links)
          [] req.whole /\ req.type = "GETADDR" ->
                Ended(IF addrs.msgs = << >> THEN LoopbackAddrs(req) ELSE addrs)
          [] req.whole /\ req.type = "GETROUTE" /\ req.dump ->
                IF routes.off = 0 THEN BuildDone(routes) ELSE routes
          [] OTHER -> IF req.dump THEN BuildDone(Reply) ELSE BuildError(Reply, "OK")

------------------------------------------------------------------------------
Names(h) == {h.ifaddrs[i].name : i \in DOMAIN h.ifaddrs}

Abouts(r, type) == SelectSeq(r.msgs, LAMBDA m : m.type = type)

\* Whatever the host has, the reply fits the buffer and has the shape the
\* programs rely on: a dump has one DONE, the last message ("so iproute2
\* doesn't read past the reply"); a lookup of a link one message; each
\* interface is reported once, as many as MaxSeen, and all of them unless the
\* buffer is full.
ReplyWellFormed(h, req) ==
    LET r == BuildReply(h, req)
        links == Abouts(r, "NEWLINK")
    IN  req.whole =>
        /\ r.off <= MAX_FAKE_NETLINK_REPLY
        /\ req.dump => /\ r.msgs # << >> /\ Last(r.msgs).type = "DONE"
                       /\ Len(Abouts(r, "DONE")) = 1
        /\ ~ req.dump /\ req.type = "GETLINK" => Len(r.msgs) = 1
        /\ Cardinality(Names(h)) <= MaxSeen =>
               \A i, j \in DOMAIN links : links[i] = links[j] => i = j
        /\ req.dump /\ req.type = "GETLINK" =>
               \/ Names(h) \subseteq {links[i].of : i \in DOMAIN links}
               \/ Full(r) \/ Full([r EXCEPT !.off = @ - 20])
==============================================================================
