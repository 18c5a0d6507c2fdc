--------------------------- MODULE ProxyConnProofs ---------------------------
(***************************************************************************)
(* What holds of ProxyConn for any proxies, whoever connects to whom, and  *)
(* any number of slots and connections.                                    *)
(*                                                                         *)
(* The inductive invariant is about each end of each connection: where its *)
(* slot is, and what has been written and read in the slot's state.  An    *)
(* event of a proxy touches one connection and the slot that its cookie    *)
(* names, so the ends of all others keep what holds of them.               *)
(***************************************************************************)
EXTENDS ProxyConn, SequenceLemmas

-----------------------------------------------------------------------------
(* The inductive invariant *)

\* End e of connection c, which is t, if the slots of the proxies are conns.
EndWith(c, t, e, s) ==
    /\ t.slot[e] # 0 =>
         /\ t.open[e] /\ s.fd = c
         /\ s.state = "CONNECTING" =>
              /\ t.log[e] = <<>> /\ t.read[e] = 0
              /\ Outgoing(t.proxy[e], t.slot[e]) => ~t.wantread[e]
         /\ s.state = "WAITTRACKERID" => t.log[e] # <<>> /\ t.read[e] = 0
         /\ s.state = "CONNECTED" => t.log[e] # <<>>
    /\ t.open[e] /\ t.slot[e] = 0 => t.log[e] = <<>> /\ t.read[e] = 0
    /\ t.log[e] \in {<<>>, <<t.proxy[e]>>, <<t.proxy[e], "data">>}

EndProper(c, t, e, conns) == EndWith(c, t, e, conns[t.proxy[e]][t.slot[e]])

\* The end e of a connection is the same in r and in t, but for what the sending thread sets.
SameEnd(r, t, e) ==
    /\ r.proxy[e] = t.proxy[e] /\ r.slot[e] = t.slot[e] /\ r.open[e] = t.open[e]
    /\ r.log[e] = t.log[e] /\ r.read[e] = t.read[e] /\ r.wantread[e] = t.wantread[e]

\* The socket of an end that has a slot is that of its slot.
LEMMA EndHolds ==
    ASSUME NEW c, NEW t, NEW e, NEW s, EndWith(c, t, e, s), t.slot[e] # 0
    PROVE  t.open[e] /\ s.fd = c
BY DEF EndWith

\* A connection of a proxy with itself takes two slots.
SlotsDiffer(t) ==
    t.proxy["client"] = t.proxy["server"] /\ t.slot["client"] # 0 => t.slot["client"] # t.slot["server"]

Proper ==
    \A c \in 1..Len(tcp) : SlotsDiffer(tcp[c]) /\ \A e \in Ends : EndProper(c, tcp[c], e, g_connections)

IInv == TypeOK /\ Proper /\ OneConnectionPerPeer

\* What MadeStays says of a step.
MadeKept ==
    \A d \in 1..Len(tcp) : Made(d) /\ tcp[d].status = "connected" => Made(d)' \/ tcp'[d].status = "broken"

-----------------------------------------------------------------------------
(* Ends, slots and connections *)

LEMMA TwoEnds ==
    /\ \A e \in Ends : Other(e) \in Ends /\ Other(e) # e /\ Other(Other(e)) = e
    /\ \A e, x \in Ends : x = e \/ x = Other(e)
    /\ "client" \in Ends /\ "server" \in Ends
BY DEF Ends, Other

SlotProper(s, n) ==
    /\ s.fd \in 0..n
    /\ s.fd = 0 <=> s.state = "DISCONNECTED"
    /\ s.tracker_id # None <=> s.state = "CONNECTED"

LEMMA SlotFields ==
    ASSUME TypeOK, NEW p \in Proxies, NEW i \in Slots
    PROVE  /\ g_connections[p][i] \in Slot
           /\ g_connections[p][i].fd \in Nat /\ g_connections[p][i].fd \in 0..Len(tcp)
           /\ g_connections[p][i].fd = 0 <=> g_connections[p][i].state = "DISCONNECTED"
           /\ g_connections[p][i].tracker_id # None <=> g_connections[p][i].state = "CONNECTED"
           /\ g_connections[p][i].state \in States
BY DEF TypeOK, Slot

LEMMA ConnectionFields ==
    ASSUME TypeOK, NEW c \in 1..Len(tcp), NEW e \in Ends
    PROVE  /\ tcp[c] \in Connection /\ tcp[c].proxy[e] \in Proxies /\ tcp[c].slot[e] \in Slots \cup {0}
           /\ tcp[c].log[e] \in Seq(Proxies \cup {"data"}) /\ tcp[c].read[e] \in Nat
           /\ tcp[c].read[e] <= Len(tcp[c].log[Other(e)])
           /\ c \in Nat /\ Len(tcp) \in Nat
<1>1. tcp \in Seq(Connection) /\ tcp[c].read[e] <= Len(tcp[c].log[Other(e)])
  BY DEF TypeOK
<1>2. tcp[c] \in Connection /\ c \in Nat /\ Len(tcp) \in Nat
  BY <1>1
<1>3. /\ tcp[c].proxy[e] \in Proxies /\ tcp[c].slot[e] \in Slots \cup {0}
      /\ tcp[c].log[e] \in Seq(Proxies \cup {"data"}) /\ tcp[c].read[e] \in Nat
  BY <1>2 DEF Connection
<1>. QED
  BY <1>1, <1>2, <1>3

LEMMA ResetFields ==
    ASSUME NEW s \in Slot
    PROVE  /\ reset_info_block(s) \in Slot
           /\ reset_info_block(s).state = "DISCONNECTED" /\ reset_info_block(s).fd = 0
           /\ reset_info_block(s).tracker_id = None
BY DEF reset_info_block, Slot, States

\* Slot i of proxy p is s now; the other slots are what they were.
LEMMA SetSlot ==
    ASSUME TypeOK, NEW p \in Proxies, NEW i \in Slots, NEW s \in Slot,
           g_connections' = [g_connections EXCEPT ![p][i] = s]
    PROVE  /\ g_connections' \in [Proxies -> [Slots -> Slot]]
           /\ g_connections'[p][i] = s
           /\ \A q \in Proxies, j \in Slots : q # p \/ j # i => g_connections'[q][j] = g_connections[q][j]
BY DEF TypeOK

-----------------------------------------------------------------------------
(* What an event leaves alone *)

\* Only connection c is touched, and slots that are free or its own.
Touches(c) ==
    /\ \A d \in 1..Len(tcp') \ {c} : d \in 1..Len(tcp) /\ tcp'[d] = tcp[d]
    /\ \A d \in 1..Len(tcp) : d \in 1..Len(tcp')
    /\ \A q \in Proxies, j \in Slots :
         g_connections'[q][j] = g_connections[q][j] \/ g_connections[q][j].fd \in {0, c}

LEMMA OthersProper ==
    ASSUME TypeOK, Proper, NEW c \in Nat, Touches(c),
           c \in 1..Len(tcp') =>
             SlotsDiffer(tcp'[c]) /\ \A e \in Ends : EndProper(c, tcp'[c], e, g_connections')
    PROVE  Proper'
<1>. SUFFICES ASSUME NEW d \in 1..Len(tcp') \ {c}
              PROVE  SlotsDiffer(tcp'[d]) /\ \A e \in Ends : EndProper(d, tcp'[d], e, g_connections')
  BY DEF Proper
<1>1. d \in 1..Len(tcp) /\ tcp'[d] = tcp[d] /\ SlotsDiffer(tcp[d])
  BY DEF Touches, Proper
<1>2. ASSUME NEW e \in Ends
      PROVE  EndProper(d, tcp[d], e, g_connections')
  <2>1. EndProper(d, tcp[d], e, g_connections)
    BY <1>1 DEF Proper
  <2>2. CASE tcp[d].slot[e] = 0
    BY <2>1, <2>2 DEF EndProper, EndWith
  <2>3. CASE tcp[d].slot[e] # 0
    <3>. DEFINE q == tcp[d].proxy[e]
                j == tcp[d].slot[e]
    <3>1. q \in Proxies /\ j \in Slots
      BY <1>1, <2>3, ConnectionFields
    <3>2. g_connections[q][j].fd = d
      <4>1. EndWith(d, tcp[d], e, g_connections[q][j])
        BY <2>1 DEF EndProper
      <4>. QED
        BY <2>3, <4>1 DEF EndWith
    <3>3. g_connections'[q][j] = g_connections[q][j]
      BY <1>1, <3>1, <3>2 DEF Touches
    <3>. QED
      BY <2>1, <3>3 DEF EndProper
  <2>. QED
    BY <2>2, <2>3
<1>. QED
  BY <1>1, <1>2

LEMMA OthersMade ==
    ASSUME TypeOK, Proper, NEW c \in Nat, Touches(c),
           c \in 1..Len(tcp) =>
             (Made(c) /\ tcp[c].status = "connected" => Made(c)' \/ tcp'[c].status = "broken")
    PROVE  MadeKept
<1>. SUFFICES ASSUME NEW d \in 1..Len(tcp), d # c, Made(d)
              PROVE  Made(d)'
  BY DEF MadeKept
<1>1. tcp'[d] = tcp[d] /\ d # 0
  BY DEF Touches
<1>2. ASSUME NEW e \in Ends
      PROVE  /\ tcp[d].slot[e] # 0
             /\ g_connections'[tcp[d].proxy[e]][tcp[d].slot[e]] = g_connections[tcp[d].proxy[e]][tcp[d].slot[e]]
  <2>1. tcp[d].slot[e] # 0 /\ g_connections[tcp[d].proxy[e]][tcp[d].slot[e]].fd = d
    BY DEF Made
  <2>2. tcp[d].proxy[e] \in Proxies /\ tcp[d].slot[e] \in Slots
    BY <2>1, ConnectionFields
  <2>. QED
    BY <1>1, <2>1, <2>2 DEF Touches
<1>. QED
  BY <1>1, <1>2, ZenonT(30) DEF Made

\* A proxy has still one connection for an id.
LEMMA OnceKept ==
    ASSUME TypeOK, OneConnectionPerPeer, NEW p \in Proxies, NEW i \in Slots, NEW s \in Slot,
           g_connections' = [g_connections EXCEPT ![p][i] = s],
           s.state = "CONNECTED" =>
             \/ g_connections[p][i].state = "CONNECTED" /\ s.tracker_id = g_connections[p][i].tracker_id
             \/ Greeted(p, i, s.tracker_id)
    PROVE  OneConnectionPerPeer'
<1>1. /\ g_connections'[p][i] = s
      /\ \A q \in Proxies, j \in Slots : q # p \/ j # i => g_connections'[q][j] = g_connections[q][j]
  BY DEF TypeOK
<1>2. ASSUME NEW q \in Proxies, NEW j \in Slots, NEW k \in Slots, g_connections'[q][j].state = "CONNECTED"
      PROVE  /\ g_connections'[q][j].tracker_id # q
             /\ j # k /\ g_connections'[q][k].state = "CONNECTED"
                  => g_connections'[q][j].tracker_id # g_connections'[q][k].tracker_id
  <2>1. CASE q # p
    BY <1>1, <1>2, <2>1 DEF OneConnectionPerPeer
  <2>2. CASE q = p /\ j # i /\ k # i
    BY <1>1, <1>2, <2>2 DEF OneConnectionPerPeer
  <2>3. CASE q = p /\ j = i
    BY <1>1, <1>2, <2>3 DEF OneConnectionPerPeer, Greeted
  <2>4. CASE q = p /\ j # i /\ k = i
    BY <1>1, <1>2, <2>4 DEF OneConnectionPerPeer, Greeted
  <2>. QED
    BY <2>1, <2>2, <2>3, <2>4
<1>. QED
  BY <1>2 DEF OneConnectionPerPeer

-----------------------------------------------------------------------------
(* Events of an end that has a slot *)

Bounded(r) == \A x \in Ends : r.read[x] <= Len(r.log[Other(x)])

\* Connection c is r now, and what has changed beside it has its type.
OneChange(c, r) ==
    /\ r \in Connection /\ Bounded(r) /\ tcp' = [tcp EXCEPT ![c] = r]
    /\ g_connections' \in [Proxies -> [Slots -> Slot]]
    /\ \A q \in Proxies, j \in Slots :
         g_connections'[q][j] = g_connections[q][j] \/ SlotProper(g_connections'[q][j], Len(tcp))
    /\ breaks' \in 0..MaxBreaks /\ worker' \in [Proxies -> Slots \cup {0}]

LEMMA TypeFrame ==
    ASSUME TypeOK, NEW c \in 1..Len(tcp), NEW r, OneChange(c, r)
    PROVE  TypeOK' /\ Len(tcp') = Len(tcp) /\ tcp'[c] = r /\ \A d \in 1..Len(tcp) \ {c} : tcp'[d] = tcp[d]
<1>. USE DEF OneChange
<1>1. /\ tcp' \in Seq(Connection) /\ Len(tcp') = Len(tcp) /\ tcp'[c] = r
      /\ \A d \in 1..Len(tcp) \ {c} : tcp'[d] = tcp[d]
  BY DEF TypeOK
<1>2. \A d \in 1..Len(tcp') : \A e \in Ends : tcp'[d].read[e] <= Len(tcp'[d].log[Other(e)])
  BY <1>1 DEF TypeOK, Bounded
<1>3. ASSUME NEW q \in Proxies, NEW j \in Slots
      PROVE  SlotProper(g_connections'[q][j], Len(tcp'))
  BY <1>1 DEF TypeOK, SlotProper
<1>4. Len(tcp') <= MaxConns
  BY <1>1 DEF TypeOK
<1>. QED
  BY <1>1, <1>2, <1>3, <1>4 DEF TypeOK, SlotProper

\* What is touched by an event of end e that goes on, beside the slot.
Changed(r, t, e) ==
    /\ r \in Connection /\ Bounded(r)
    /\ r.proxy = t.proxy /\ r.slot = t.slot /\ r.open = t.open
    /\ \A x \in Ends \ {e} : r.log[x] = t.log[x] /\ r.read[x] = t.read[x] /\ r.wantread[x] = t.wantread[x]

LEMMA EventStep ==
    ASSUME IInv, NEW p \in Proxies, NEW c \in 1..Len(tcp), NEW e \in Ends, NEW i \in Slots, Has(p, c, e, i),
           NEW r, Changed(r, tcp[c], e), tcp' = [tcp EXCEPT ![c] = r],
           NEW s \in Slot, g_connections' = [g_connections EXCEPT ![p][i] = s], UNCHANGED <<breaks, worker>>,
           s.fd = c, s.state # "DISCONNECTED", s.tracker_id # None <=> s.state = "CONNECTED",
           s.state = "CONNECTED" =>
             \/ g_connections[p][i].state = "CONNECTED" /\ s.tracker_id = g_connections[p][i].tracker_id
             \/ Greeted(p, i, s.tracker_id),
           g_connections[p][i].state = "CONNECTED" => s.state = "CONNECTED",
           EndProper(c, r, e, g_connections')
    PROVE  IInv' /\ MadeKept
<1>1. TypeOK /\ Proper /\ OneConnectionPerPeer
  BY DEF IInv
<1>2. /\ g_connections' \in [Proxies -> [Slots -> Slot]]
      /\ g_connections'[p][i] = s
      /\ \A q \in Proxies, j \in Slots : q # p \/ j # i => g_connections'[q][j] = g_connections[q][j]
  BY <1>1 DEF TypeOK
<1>3. c \in Nat /\ c # 0 /\ c \in 0..Len(tcp)
  BY <1>1, ConnectionFields
<1>4. TypeOK' /\ Len(tcp') = Len(tcp) /\ tcp'[c] = r /\ \A d \in 1..Len(tcp) \ {c} : tcp'[d] = tcp[d]
  <2>1. \A q \in Proxies, j \in Slots :
             g_connections'[q][j] = g_connections[q][j] \/ SlotProper(g_connections'[q][j], Len(tcp))
    BY <1>2, <1>3 DEF SlotProper
  <2>2. breaks' \in 0..MaxBreaks /\ worker' \in [Proxies -> Slots \cup {0}]
    BY <1>1 DEF TypeOK
  <2>3. r \in Connection /\ Bounded(r)
    BY DEF Changed
  <2>4. OneChange(c, r)
    BY <1>2, <2>1, <2>2, <2>3 DEF OneChange
  <2>. QED
    BY <1>1, <2>4, TypeFrame
<1>5. EndProper(c, tcp[c], e, g_connections) /\ SlotsDiffer(tcp[c])
  BY <1>1 DEF Proper
<1>6. g_connections[p][i].fd = c
  BY <1>5, EndHolds DEF EndProper, Has, Slots
<1>7. Touches(c)
  BY <1>2, <1>4, <1>6 DEF Touches
<1>8. EndProper(c, r, Other(e), g_connections')
  <2>. DEFINE o == Other(e)
  <2>1. EndProper(c, tcp[c], o, g_connections) /\ o \in Ends \ {e}
    BY <1>1, TwoEnds DEF Proper
  <2>2. /\ r.proxy[o] = tcp[c].proxy[o] /\ r.slot[o] = tcp[c].slot[o] /\ r.open[o] = tcp[c].open[o]
        /\ r.log[o] = tcp[c].log[o] /\ r.read[o] = tcp[c].read[o] /\ r.wantread[o] = tcp[c].wantread[o]
    BY <2>1 DEF Changed
  <2>3. r.slot[o] # 0 => g_connections'[r.proxy[o]][r.slot[o]] = g_connections[r.proxy[o]][r.slot[o]]
    <3>1. ASSUME r.slot[o] # 0
          PROVE  r.proxy[o] # p \/ r.slot[o] # i
      <4>1. tcp[c].proxy[e] = p /\ tcp[c].slot[e] = i /\ i # 0
        BY DEF Has, Slots
      <4>. QED
        BY <1>5, <2>2, <3>1, <4>1 DEF SlotsDiffer, Ends, Other
    <3>2. r.slot[o] # 0 => r.proxy[o] \in Proxies /\ r.slot[o] \in Slots
      BY <1>1, <2>1, <2>2, ConnectionFields
    <3>. QED
      BY <1>2, <3>1, <3>2
  <2>. HIDE DEF o
  <2>6. EndProper(c, r, o, g_connections')
    <3>1. SameEnd(r, tcp[c], o)
      BY <2>2 DEF SameEnd
    <3> DEFINE before == g_connections[r.proxy[o]][r.slot[o]]
               after == g_connections'[r.proxy[o]][r.slot[o]]
    <3>2. EndWith(c, tcp[c], o, before) /\ (tcp[c].slot[o] # 0 => after = before)
      BY <2>1, <2>2, <2>3 DEF EndProper
    <3>3. EndWith(c, r, o, after)
      <4>. HIDE DEF before, after
      <4>. QED
        BY <3>1, <3>2 DEF EndWith, SameEnd
    <3>. QED
      BY <3>3 DEF EndProper
  <2>. QED
    BY <2>6 DEF o
<1>9. SlotsDiffer(r)
  BY <1>5 DEF SlotsDiffer, Changed
<1>10. Proper'
  <2>1. \A x \in Ends : EndProper(c, r, x, g_connections')
    BY <1>8, TwoEnds
  <2>. QED
    BY <1>1, <1>3, <1>4, <1>7, <1>9, <2>1, OthersProper
<1>11. OneConnectionPerPeer'
  BY <1>1, OnceKept
<1>12. Made(c) => Made(c)'
  <2>. SUFFICES ASSUME Made(c)
                PROVE  Made(c)'
    OBVIOUS
  <2>1. \A x \in Ends : r.slot[x] # 0 /\ r.slot[x] \in Slots /\ r.proxy[x] \in Proxies
                        /\ r.slot[x] = tcp[c].slot[x] /\ r.proxy[x] = tcp[c].proxy[x]
                        /\ g_connections[r.proxy[x]][r.slot[x]].state = "CONNECTED"
                        /\ g_connections[r.proxy[x]][r.slot[x]].fd = c
    BY <1>1, ConnectionFields, ZenonT(30) DEF Made, Changed
  <2>2. g_connections[p][i].state = "CONNECTED" /\ s.state = "CONNECTED"
    BY <2>1 DEF Has
  <2>3. \A x \in Ends : /\ g_connections'[r.proxy[x]][r.slot[x]].state = "CONNECTED"
                        /\ g_connections'[r.proxy[x]][r.slot[x]].fd = c
    <3>1. ASSUME NEW q \in Proxies, NEW j \in Slots, g_connections[q][j].state = "CONNECTED",
                 g_connections[q][j].fd = c
          PROVE  g_connections'[q][j].state = "CONNECTED" /\ g_connections'[q][j].fd = c
      BY <1>2, <2>2, <3>1
    <3>. QED
      BY <2>1, <3>1
  <2>5. tcp'[c] = r
    BY <1>4
  <2>. QED
    BY <2>1, <2>3, <2>5, ZenonT(30) DEF Made
<1>. QED
  BY <1>1, <1>3, <1>4, <1>7, <1>10, <1>11, <1>12, OthersMade DEF IInv

-----------------------------------------------------------------------------
(* Closing an end *)

\* Slot i of proxy p has been reset.
LEMMA ResetSlot ==
    ASSUME TypeOK, OneConnectionPerPeer, NEW p \in Proxies, NEW i \in Slots,
           g_connections' = [g_connections EXCEPT ![p][i] = reset_info_block(@)]
    PROVE  /\ g_connections' \in [Proxies -> [Slots -> Slot]] /\ OneConnectionPerPeer'
           /\ SlotProper(g_connections'[p][i], Len(tcp))
           /\ \A q \in Proxies, j \in Slots : q # p \/ j # i => g_connections'[q][j] = g_connections[q][j]
<1>. DEFINE s == reset_info_block(g_connections[p][i])
<1>1. g_connections[p][i] \in Slot
  BY SlotFields
<1>2. s \in Slot /\ s.state = "DISCONNECTED" /\ s.fd = 0 /\ s.tracker_id = None
  BY <1>1, ResetFields
<1>3. g_connections' = [g_connections EXCEPT ![p][i] = s]
  OBVIOUS
<1>. HIDE DEF s
<1>4. /\ g_connections' \in [Proxies -> [Slots -> Slot]] /\ g_connections'[p][i] = s
      /\ \A q \in Proxies, j \in Slots : q # p \/ j # i => g_connections'[q][j] = g_connections[q][j]
  BY <1>2, <1>3 DEF TypeOK
<1>5. OneConnectionPerPeer'
  BY <1>2, <1>3, OnceKept
<1>6. Len(tcp) \in Nat
  BY DEF TypeOK
<1>. QED
  BY <1>2, <1>4, <1>5, <1>6 DEF SlotProper

\* Connection t is r after end e of it has been closed.
Closed(r, t, e) ==
    /\ r \in Connection /\ Bounded(r) /\ r.proxy = t.proxy
    /\ ~r.open[e] /\ r.slot[e] = 0
    /\ \A x \in Ends \ {e} :
         /\ r.open[x] = t.open[x]
         /\ r.slot[x] = t.slot[x] \/ (r.slot[x] = 0 /\ ~t.open[x])
         /\ t.open[x] => r.log[x] = t.log[x] /\ r.read[x] = t.read[x] /\ r.wantread[x] = t.wantread[x]
    /\ \A x \in Ends : r.log[x] = t.log[x] \/ r.log[x] = <<>>

LEMMA CloseFields ==
    ASSUME TypeOK, NEW c \in 1..Len(tcp), NEW e \in Ends
    PROVE  \E r : Closed(r, tcp[c], e) /\ io_close(c, e) = [tcp EXCEPT ![c] = r]
<1>. DEFINE t == tcp[c]
            r1 == [t EXCEPT !.open[e] = FALSE, !.slot[e] = 0, !.wantread[e] = FALSE, !.wantwrite[e] = FALSE]
<1>1. t \in Connection /\ Other(e) \in Ends /\ Other(e) # e
  BY ConnectionFields, TwoEnds
<1>2. Bounded(t)
  BY DEF TypeOK, Bounded
<1>3. CASE ~t.open[Other(e)]
  <2>1. io_close(c, e) = [tcp EXCEPT ![c] = Over(c)]
    BY <1>3 DEF io_close
  <2>2. Over(c) \in Connection /\ Over(c).proxy = t.proxy
    <3>. DEFINE q == [x \in Ends |-> IF x = "client" THEN t.proxy["client"] ELSE t.proxy["server"]]
                z == [x \in Ends |-> IF x = "client" THEN 0 ELSE 0]
                n == [x \in Ends |-> <<>>]
                d == [x \in Ends |-> 0]
    <3>1. t.proxy \in [Ends -> Proxies]
      BY <1>1 DEF Connection
    <3>2. q = t.proxy
      BY <3>1 DEF Ends
    <3>3. NewConnection(t.proxy["client"], t.proxy["server"], 0) =
             [status |-> "connecting", proxy |-> q, open |-> [x \in Ends |-> TRUE], slot |-> z, wantread |-> No,
              wantwrite |-> [No EXCEPT !["client"] = TRUE], log |-> n, read |-> d]
      BY DEF NewConnection
    <3>. DEFINE y == [x \in Ends |-> TRUE]
                w == [No EXCEPT !["client"] = TRUE]
    <3>4. /\ No \in [Ends -> BOOLEAN] /\ w \in [Ends -> BOOLEAN] /\ y \in [Ends -> BOOLEAN]
      BY DEF No
    <3>5. /\ z \in [Ends -> Slots \cup {0}] /\ d \in [Ends -> Nat]
      OBVIOUS
    <3>6. n \in [Ends -> Seq(Proxies \cup {"data"})]
      OBVIOUS
    <3>. HIDE DEF q, z, n, d, y, w
    <3>. DEFINE u == NewConnection(t.proxy["client"], t.proxy["server"], 0)
    <3>7. u = [status |-> "connecting", proxy |-> q, open |-> y, slot |-> z, wantread |-> No,
               wantwrite |-> w, log |-> n, read |-> d]
      BY <3>3 DEF y, w
    <3>. HIDE DEF u
    <3>8. u.proxy = q
      BY <3>7
    <3>9. u \in Connection
      BY <3>1, <3>2, <3>4, <3>5, <3>6, <3>7 DEF Connection
    <3>10. Over(c) = [u EXCEPT !.status = "broken", !.open = No, !.wantwrite = No]
      BY DEF Over, u
    <3>11. Over(c) \in Connection /\ Over(c).proxy = u.proxy
      BY <3>4, <3>9, <3>10 DEF Connection
    <3>. QED
      BY <3>2, <3>8, <3>11
  <2>3. \A x \in Ends : Over(c).log[x] = <<>> /\ Over(c).read[x] = 0 /\ ~Over(c).open[x] /\ Over(c).slot[x] = 0
    BY DEF Over, NewConnection, No, Ends
  <2>4. Bounded(Over(c))
    BY <2>3, TwoEnds DEF Bounded
  <2>5. \A x \in Ends \ {e} : ~t.open[x]
    BY <1>3, TwoEnds
  <2>6. \A x \in Ends : Over(c).open[x] = FALSE /\ t.open[x] \in BOOLEAN
    BY <1>1 DEF Over, NewConnection, No, Connection
  <2>7. Closed(Over(c), t, e)
    BY <2>2, <2>3, <2>4, <2>5, <2>6 DEF Closed
  <2>. QED
    BY <2>1, <2>7
<1>4. CASE t.open[Other(e)]
  <2>1. io_close(c, e) = [tcp EXCEPT ![c] = r1]
    BY <1>4 DEF io_close
  <2>2. r1 \in Connection
    BY <1>1 DEF Connection
  <2>3. /\ r1.proxy = t.proxy /\ r1.log = t.log /\ r1.read = t.read
        /\ ~r1.open[e] /\ r1.slot[e] = 0
        /\ \A x \in Ends \ {e} : r1.open[x] = t.open[x] /\ r1.slot[x] = t.slot[x] /\ r1.wantread[x] = t.wantread[x]
    BY <1>1 DEF Connection
  <2>. HIDE DEF r1
  <2>4. Bounded(r1)
    BY <1>2, <2>3 DEF Bounded
  <2>. HIDE DEF t
  <2>5. \A x \in Ends : r1.log[x] = t.log[x] /\ r1.read[x] = t.read[x]
    BY <2>3
  <2>6. Closed(r1, t, e)
    BY <2>2, <2>3, <2>4, <2>5 DEF Closed
  <2>. QED
    BY <2>1, <2>6 DEF t
<1>. QED
  BY <1>3, <1>4

\* End e of connection c, which has slot i of p or none, is closed, and its slot may be reset.
LEMMA CloseStep ==
    ASSUME IInv, NEW p \in Proxies, NEW c \in 1..Len(tcp), NEW e \in Ends, NEW i \in Slots \cup {0},
           Has(p, c, e, i), tcp' = io_close(c, e), UNCHANGED <<breaks, worker>>,
           \/ UNCHANGED g_connections
           \/ i \in Slots /\ g_connections' = [g_connections EXCEPT ![p][i] = reset_info_block(@)],
           ~(Made(c) /\ tcp[c].status = "connected")
    PROVE  IInv' /\ MadeKept
<1>1. TypeOK /\ Proper /\ OneConnectionPerPeer
  BY DEF IInv
<1>2. PICK r : Closed(r, tcp[c], e) /\ tcp' = [tcp EXCEPT ![c] = r]
  BY <1>1, CloseFields
<1>3. /\ g_connections' \in [Proxies -> [Slots -> Slot]]
      /\ \A q \in Proxies, j \in Slots :
           \/ g_connections'[q][j] = g_connections[q][j]
           \/ q = p /\ j = i /\ SlotProper(g_connections'[q][j], Len(tcp))
      /\ OneConnectionPerPeer'
  <2>1. CASE UNCHANGED g_connections
    BY <1>1, <2>1 DEF TypeOK, OneConnectionPerPeer
  <2>2. CASE i \in Slots /\ g_connections' = [g_connections EXCEPT ![p][i] = reset_info_block(@)]
    <3>1. i \in Slots
      BY <2>2
    <3>2. /\ g_connections' \in [Proxies -> [Slots -> Slot]] /\ OneConnectionPerPeer'
          /\ SlotProper(g_connections'[p][i], Len(tcp))
          /\ \A q \in Proxies, j \in Slots : q # p \/ j # i => g_connections'[q][j] = g_connections[q][j]
      BY <1>1, <2>2, <3>1, ResetSlot, ZenonT(40)
    <3>. QED
      BY <3>2
  <2>. QED
    BY <2>1, <2>2
<1>4. TypeOK' /\ Len(tcp') = Len(tcp) /\ tcp'[c] = r /\ \A d \in 1..Len(tcp) \ {c} : tcp'[d] = tcp[d]
  <2>1. \A q \in Proxies, j \in Slots :
             g_connections'[q][j] = g_connections[q][j] \/ SlotProper(g_connections'[q][j], Len(tcp))
    BY <1>3
  <2>2. breaks' \in 0..MaxBreaks /\ worker' \in [Proxies -> Slots \cup {0}]
    BY <1>1 DEF TypeOK
  <2>3. r \in Connection /\ Bounded(r)
    BY <1>2 DEF Closed
  <2>4. OneChange(c, r)
    BY <1>2, <1>3, <2>1, <2>2, <2>3 DEF OneChange
  <2>. QED
    BY <1>1, <2>4, TypeFrame
<1>5. /\ SlotsDiffer(tcp[c]) /\ \A x \in Ends : EndProper(c, tcp[c], x, g_connections)
      /\ c \in Nat /\ tcp[c].proxy[e] = p /\ tcp[c].slot[e] = i
  BY <1>1 DEF Proper, Has
<1>6. i # 0 => g_connections[p][i].fd = c
  BY <1>5 DEF EndProper, EndWith
<1>7. Touches(c)
  <2>1. \A q \in Proxies, j \in Slots :
           g_connections'[q][j] = g_connections[q][j] \/ g_connections[q][j].fd \in {0, c}
    BY <1>3, <1>6 DEF Slots
  <2>. QED
    BY <1>4, <2>1 DEF Touches
<1>8. EndProper(c, r, e, g_connections')
  BY <1>2, <1>5 DEF EndProper, EndWith, Closed
<1>9. EndProper(c, r, Other(e), g_connections')
  <2>. DEFINE o == Other(e)
  <2>1. EndProper(c, tcp[c], o, g_connections) /\ o \in Ends \ {e}
    BY <1>5, TwoEnds
  <2>2. /\ r.proxy[o] = tcp[c].proxy[o] /\ r.open[o] = tcp[c].open[o]
        /\ r.slot[o] = tcp[c].slot[o] \/ (r.slot[o] = 0 /\ ~tcp[c].open[o])
        /\ tcp[c].open[o] => r.log[o] = tcp[c].log[o] /\ r.read[o] = tcp[c].read[o] /\ r.wantread[o] = tcp[c].wantread[o]
        /\ r.log[o] = tcp[c].log[o] \/ r.log[o] = <<>>
    BY <1>2, <2>1 DEF Closed
  <2>3. tcp[c].slot[o] # 0 => g_connections'[r.proxy[o]][tcp[c].slot[o]] = g_connections[r.proxy[o]][tcp[c].slot[o]]
    <3>1. ASSUME tcp[c].slot[o] # 0
          PROVE  r.proxy[o] # p \/ tcp[c].slot[o] # i
      BY <1>5, <2>2, <3>1 DEF SlotsDiffer, Ends, Other
    <3>2. tcp[c].slot[o] # 0 => r.proxy[o] \in Proxies /\ tcp[c].slot[o] \in Slots
      BY <1>1, <2>1, <2>2, ConnectionFields
    <3>. QED
      BY <1>3, <3>1, <3>2
  <2>. HIDE DEF o
  <2>4. tcp[c].slot[o] = 0 => EndProper(c, r, o, g_connections')
    BY <2>1, <2>2 DEF EndProper, EndWith
  <2>5. tcp[c].slot[o] # 0 => EndProper(c, r, o, g_connections')
    <3>. SUFFICES ASSUME tcp[c].slot[o] # 0
                  PROVE  EndProper(c, r, o, g_connections')
      OBVIOUS
    <3>1. tcp[c].open[o]
      BY <2>1, EndHolds DEF EndProper
    <3>2. SameEnd(r, tcp[c], o)
      BY <2>2, <3>1 DEF SameEnd
    <3> DEFINE before == g_connections[r.proxy[o]][r.slot[o]]
               after == g_connections'[r.proxy[o]][r.slot[o]]
    <3>3. EndWith(c, tcp[c], o, before)
      BY <2>1, <3>2 DEF EndProper, SameEnd
    <3>4. after = before
      BY <2>3, <3>2 DEF SameEnd
    <3>5. EndWith(c, r, o, after)
      <4>. HIDE DEF before, after
      <4>. QED
        BY <3>2, <3>3, <3>4 DEF EndWith, SameEnd
    <3>. QED
      BY <3>5 DEF EndProper
  <2>6. EndProper(c, r, o, g_connections')
    BY <2>4, <2>5
  <2>. QED
    BY <2>6 DEF o
<1>10. SlotsDiffer(r)
  <2>1. r.slot["client"] # 0 => r.slot["server"] = 0
    BY <1>2, TwoEnds DEF Closed, Ends
  <2>. QED
    BY <2>1 DEF SlotsDiffer
<1>11. Proper'
  <2>1. \A x \in Ends : EndProper(c, r, x, g_connections')
    BY <1>8, <1>9, TwoEnds
  <2>. QED
    BY <1>1, <1>4, <1>5, <1>7, <1>10, <2>1, OthersProper
<1>. QED
  BY <1>1, <1>3, <1>4, <1>5, <1>7, <1>11, OthersMade DEF IInv

-----------------------------------------------------------------------------
(* Steps that change no state of a slot and nothing of a connection but whether it is up and *)
(* what the sending thread sets.                                                             *)

Same(r, t) ==
    /\ r.proxy = t.proxy /\ r.slot = t.slot /\ r.open = t.open
    /\ r.log = t.log /\ r.read = t.read /\ r.wantread = t.wantread

Quiet ==
    /\ tcp' \in Seq(Connection) /\ Len(tcp') = Len(tcp)
    /\ \A d \in 1..Len(tcp) : Same(tcp'[d], tcp[d])
    /\ g_connections' \in [Proxies -> [Slots -> Slot]]
    /\ \A q \in Proxies, j \in Slots :
         /\ g_connections'[q][j].state = g_connections[q][j].state
         /\ g_connections'[q][j].fd = g_connections[q][j].fd
         /\ g_connections'[q][j].tracker_id = g_connections[q][j].tracker_id
    /\ breaks' \in 0..MaxBreaks /\ worker' \in [Proxies -> Slots \cup {0}]

LEMMA QuietStep ==
    ASSUME IInv, Quiet
    PROVE  IInv' /\ MadeKept
<1>1. TypeOK /\ Proper /\ OneConnectionPerPeer
  BY DEF IInv
<1>2. TypeOK'
  <2>1. \A d \in 1..Len(tcp') : \A e \in Ends : tcp'[d].read[e] <= Len(tcp'[d].log[Other(e)])
    BY <1>1 DEF Quiet, Same, TypeOK
  <2>2. ASSUME NEW q \in Proxies, NEW j \in Slots
        PROVE  SlotProper(g_connections'[q][j], Len(tcp'))
    <3>1. SlotProper(g_connections[q][j], Len(tcp))
      BY <1>1, SlotFields DEF SlotProper
    <3>2. /\ Len(tcp') = Len(tcp)
          /\ g_connections'[q][j].state = g_connections[q][j].state
          /\ g_connections'[q][j].fd = g_connections[q][j].fd
          /\ g_connections'[q][j].tracker_id = g_connections[q][j].tracker_id
      BY DEF Quiet
    <3>. QED
      BY <3>1, <3>2 DEF SlotProper
  <2>3. Len(tcp') <= MaxConns
    BY <1>1 DEF Quiet, TypeOK
  <2>. QED
    BY <2>1, <2>2, <2>3 DEF Quiet, TypeOK, SlotProper
<1>3. ASSUME NEW d \in 1..Len(tcp), NEW e \in Ends
      PROVE  /\ EndProper(d, tcp'[d], e, g_connections')
             /\ tcp[d].slot[e] # 0 =>
                  /\ g_connections'[tcp[d].proxy[e]][tcp[d].slot[e]].state = g_connections[tcp[d].proxy[e]][tcp[d].slot[e]].state
                  /\ g_connections'[tcp[d].proxy[e]][tcp[d].slot[e]].fd = g_connections[tcp[d].proxy[e]][tcp[d].slot[e]].fd
  <2>1. EndProper(d, tcp[d], e, g_connections)
    BY <1>1 DEF Proper
  <2>2. Same(tcp'[d], tcp[d])
    BY DEF Quiet
  <2>3. tcp[d].slot[e] # 0 =>
           /\ g_connections'[tcp[d].proxy[e]][tcp[d].slot[e]].state = g_connections[tcp[d].proxy[e]][tcp[d].slot[e]].state
           /\ g_connections'[tcp[d].proxy[e]][tcp[d].slot[e]].fd = g_connections[tcp[d].proxy[e]][tcp[d].slot[e]].fd
    <3>1. tcp[d].proxy[e] \in Proxies /\ tcp[d].slot[e] \in Slots \cup {0}
      BY <1>1, ConnectionFields
    <3>. QED
      BY <3>1 DEF Quiet
  <2>. QED
    <3>1. SameEnd(tcp'[d], tcp[d], e)
      BY <2>2 DEF Same, SameEnd
    <3> DEFINE before == g_connections[tcp[d].proxy[e]][tcp[d].slot[e]]
               after == g_connections'[tcp[d].proxy[e]][tcp[d].slot[e]]
               t == tcp[d]
               r == tcp'[d]
    <3>2. EndWith(d, t, e, before) /\ SameEnd(r, t, e)
      BY <2>1, <3>1 DEF EndProper
    <3>4. t.slot[e] # 0 => after.state = before.state /\ after.fd = before.fd
      BY <2>3
    <3>5. EndWith(d, r, e, after)
      <4>. HIDE DEF before, after, t, r
      <4>. QED
        BY <3>2, <3>4 DEF EndWith, SameEnd
    <3>3. EndProper(d, tcp'[d], e, g_connections')
      BY <3>1, <3>5 DEF EndProper, SameEnd
    <3>. QED
      BY <2>3, <3>3
<1>4. Proper'
  <2>1. \A d \in 1..Len(tcp) : SlotsDiffer(tcp'[d])
    BY <1>1 DEF Proper, Quiet, Same, SlotsDiffer
  <2>2. Len(tcp') = Len(tcp)
    BY DEF Quiet
  <2>. QED
    BY <1>3, <2>1, <2>2 DEF Proper
<1>5. OneConnectionPerPeer'
  BY <1>1, SMTT(30) DEF OneConnectionPerPeer, Quiet
<1>6. ASSUME NEW d \in 1..Len(tcp), Made(d)
      PROVE  Made(d)'
  <2>1. Same(tcp'[d], tcp[d])
    BY DEF Quiet
  <2>. QED
    BY <1>3, <1>6, <2>1, ZenonT(30) DEF Made, Same
<1>. QED
  BY <1>1, <1>2, <1>4, <1>5, <1>6 DEF IInv, MadeKept

LEMMA NetworkStep ==
    ASSUME IInv, NEW c \in 1..Len(tcp), Connect(c) \/ Break(c)
    PROVE  IInv' /\ MadeKept
<1>1. TypeOK
  BY DEF IInv
<1>2. breaks \in 0..MaxBreaks /\ worker \in [Proxies -> Slots \cup {0}] /\ MaxBreaks \in Nat /\ tcp \in Seq(Connection)
  BY <1>1, SlotsAssumption DEF TypeOK
<1>3. /\ breaks' \in 0..MaxBreaks /\ UNCHANGED <<g_connections, worker>>
      /\ \E s \in {"connected", "broken"} : tcp' = [tcp EXCEPT ![c].status = s]
  BY <1>2 DEF Connect, Break
<1>4. PICK s \in {"connected", "broken"} : tcp' = [tcp EXCEPT ![c].status = s]
  BY <1>3
<1>. DEFINE r == [tcp[c] EXCEPT !.status = s]
<1>5. tcp[c] \in Connection
  BY <1>2
<1>6. r \in Connection /\ Same(r, tcp[c])
  BY <1>5 DEF Connection, Same
<1>7. tcp' = [tcp EXCEPT ![c] = r]
  BY <1>4
<1>. HIDE DEF r
<1>8. tcp' \in Seq(Connection) /\ Len(tcp') = Len(tcp) /\ \A d \in 1..Len(tcp) : Same(tcp'[d], tcp[d])
  BY <1>2, <1>6, <1>7 DEF Same
<1>. QED
  <2>1. g_connections \in [Proxies -> [Slots -> Slot]]
    BY <1>1 DEF TypeOK
  <2>2. Quiet
    BY <1>2, <1>3, <1>8, <2>1 DEF Quiet
  <2>. QED
    BY <2>2, QuietStep

LEMMA StutterStep ==
    ASSUME IInv, UNCHANGED vars
    PROVE  IInv' /\ MadeKept
<1>1. Quiet
  BY DEF vars, Quiet, Same, IInv, TypeOK
<1>. QED
  BY <1>1, QuietStep

LEMMA CheckStep ==
    ASSUME IInv, NEW p \in Proxies, NEW i \in Slots, streamsync_check(p, i)
    PROVE  IInv' /\ MadeKept
<1>1. Quiet
  BY DEF streamsync_check, Quiet, Same, IInv, TypeOK
<1>. QED
  BY <1>1, QuietStep

LEMMA AddStep ==
    ASSUME IInv, NEW p \in Proxies, streamsync_add(p)
    PROVE  IInv' /\ MadeKept
<1>. DEFINE i == worker[p]
            c == g_connections[p][i].fd
            e == EndOf(p, c)
            s == [g_connections[p][i] EXCEPT !.outdata = TRUE]
            r == [tcp[c] EXCEPT !.wantwrite[e] = TRUE]
<1>1. TypeOK
  BY DEF IInv
<1>2. i \in Slots /\ g_connections[p][i] \in Slot /\ c \in 0..Len(tcp) /\ Len(tcp) \in Nat /\ tcp \in Seq(Connection)
  <2>1. i \in Slots
    BY <1>1 DEF streamsync_add, TypeOK
  <2>. QED
    BY <1>1, <2>1, SlotFields DEF TypeOK
<1>3. s \in Slot /\ s.state = g_connections[p][i].state /\ s.fd = c /\ s.tracker_id = g_connections[p][i].tracker_id
  BY <1>2 DEF Slot
<1>4. g_connections' = [g_connections EXCEPT ![p][i] = s]
  BY DEF streamsync_add
<1>5. tcp' = tcp \/ (c # 0 /\ tcp' = [tcp EXCEPT ![c] = r])
  BY DEF streamsync_add
<1>6. e \in Ends
  BY DEF EndOf, Ends
<1>7. c # 0 => r \in Connection /\ Same(r, tcp[c])
  <2>1. c # 0 => tcp[c] \in Connection
    BY <1>2
  <2>. HIDE DEF c, e
  <2>. QED
    BY <1>6, <2>1 DEF Connection, Same
<1>8. breaks' \in 0..MaxBreaks /\ worker' \in [Proxies -> Slots \cup {0}]
  BY <1>1 DEF streamsync_add, TypeOK
<1>. HIDE DEF s, r, e, c, i
<1>9. tcp' \in Seq(Connection) /\ Len(tcp') = Len(tcp) /\ \A d \in 1..Len(tcp) : Same(tcp'[d], tcp[d])
  <2>1. CASE tcp' = tcp
    BY <1>2, <2>1 DEF Same
  <2>2. CASE c # 0 /\ tcp' = [tcp EXCEPT ![c] = r]
    BY <1>2, <1>7, <2>2 DEF Same
  <2>. QED
    BY <1>5, <2>1, <2>2
<1>10. /\ g_connections' \in [Proxies -> [Slots -> Slot]]
       /\ \A q \in Proxies, j \in Slots :
            /\ g_connections'[q][j].state = g_connections[q][j].state
            /\ g_connections'[q][j].fd = g_connections[q][j].fd
            /\ g_connections'[q][j].tracker_id = g_connections[q][j].tracker_id
  <2>1. /\ g_connections' \in [Proxies -> [Slots -> Slot]] /\ g_connections'[p][i] = s
        /\ \A q \in Proxies, j \in Slots : q # p \/ j # i => g_connections'[q][j] = g_connections[q][j]
    BY <1>1, <1>2, <1>3, <1>4 DEF TypeOK
  <2>. QED
    BY <1>3, <2>1 DEF c
<1>11. Quiet
  BY <1>8, <1>9, <1>10 DEF Quiet
<1>. QED
  BY <1>11, QuietStep

-----------------------------------------------------------------------------
(* New connections *)

LEMMA NewFields ==
    ASSUME NEW p \in Proxies, NEW q \in Proxies, NEW i \in Slots
    PROVE  /\ NewConnection(p, q, i) \in Connection
           /\ NewConnection(p, q, i).proxy["client"] = p
           /\ NewConnection(p, q, i).slot["client"] = i /\ NewConnection(p, q, i).slot["server"] = 0
           /\ \A e \in Ends : /\ NewConnection(p, q, i).open[e] /\ ~NewConnection(p, q, i).wantread[e]
                              /\ NewConnection(p, q, i).log[e] = <<>> /\ NewConnection(p, q, i).read[e] = 0
<1>. DEFINE x == [e \in Ends |-> IF e = "client" THEN p ELSE q]
            z == [e \in Ends |-> IF e = "client" THEN i ELSE 0]
            n == [e \in Ends |-> <<>>]
            d == [e \in Ends |-> 0]
            y == [e \in Ends |-> TRUE]
            w == [No EXCEPT !["client"] = TRUE]
            u == NewConnection(p, q, i)
<1>1. /\ No \in [Ends -> BOOLEAN] /\ w \in [Ends -> BOOLEAN] /\ y \in [Ends -> BOOLEAN]
      /\ \A e \in Ends : ~No[e] /\ y[e]
  BY DEF No
<1>2. x \in [Ends -> Proxies] /\ z \in [Ends -> Slots \cup {0}] /\ d \in [Ends -> Nat]
  OBVIOUS
<1>3. n \in [Ends -> Seq(Proxies \cup {"data"})]
  OBVIOUS
<1>4. x["client"] = p /\ z["client"] = i /\ z["server"] = 0 /\ \A e \in Ends : n[e] = <<>> /\ d[e] = 0
  BY DEF Ends
<1>5. u = [status |-> "connecting", proxy |-> x, open |-> y, slot |-> z, wantread |-> No,
           wantwrite |-> w, log |-> n, read |-> d]
  BY DEF NewConnection
<1>. HIDE DEF x, z, n, d, y, w, u
<1>6. u \in Connection
  BY <1>1, <1>2, <1>3, <1>5 DEF Connection
<1>7. /\ u.proxy["client"] = p /\ u.slot["client"] = i /\ u.slot["server"] = 0
      /\ \A e \in Ends : u.open[e] /\ ~u.wantread[e] /\ u.log[e] = <<>> /\ u.read[e] = 0
  BY <1>1, <1>4, <1>5
<1>. QED
  BY <1>6, <1>7 DEF u

LEMMA ReconnectStep ==
    ASSUME IInv, NEW p \in Proxies, NEW i \in Slots, handle_reconnects(p, i)
    PROVE  IInv' /\ MadeKept
<1>. DEFINE n == Len(tcp) + 1
            q == Peers[p][i]
            r == NewConnection(p, q, i)
            s == [reset_info_block(g_connections[p][i]) EXCEPT !.fd = n, !.state = "CONNECTING"]
<1>1. TypeOK /\ Proper /\ OneConnectionPerPeer
  BY DEF IInv
<1>2. tcp \in Seq(Connection) /\ Len(tcp) \in Nat /\ MaxConns \in Nat /\ Len(tcp) < MaxConns
  BY <1>1, SlotsAssumption DEF TypeOK, handle_reconnects
<1>3. i # 0 /\ q \in Proxies
  <2>1. i \in 1..Len(Peers[p]) /\ Peers[p] \in Seq(Proxies)
    BY SlotsAssumption DEF Slots, handle_reconnects, Outgoing
  <2>. QED
    BY <2>1
<1>4. /\ r \in Connection /\ r.proxy["client"] = p /\ r.slot["client"] = i /\ r.slot["server"] = 0
      /\ \A e \in Ends : r.open[e] /\ ~r.wantread[e] /\ r.log[e] = <<>> /\ r.read[e] = 0
  BY <1>3, NewFields
<1>5. g_connections[p][i] \in Slot /\ g_connections[p][i].fd = 0
  BY <1>1, SlotFields DEF handle_reconnects
<1>6. s \in Slot /\ s.fd = n /\ s.state = "CONNECTING" /\ s.tracker_id = None
  <2>. DEFINE b == reset_info_block(g_connections[p][i])
  <2>1. b \in Slot /\ b.tracker_id = None /\ n \in Nat
    BY <1>2, <1>5, ResetFields
  <2>. HIDE DEF b, n
  <2>2. [b EXCEPT !.fd = n, !.state = "CONNECTING"] \in Slot
    BY <2>1 DEF Slot, States
  <2>. QED
    BY <2>1, <2>2 DEF b, Slot
<1>7. tcp' = Append(tcp, r) /\ g_connections' = [g_connections EXCEPT ![p][i] = s]
  BY DEF handle_reconnects
<1>. HIDE DEF r, s, q
<1>8. /\ tcp' \in Seq(Connection) /\ Len(tcp') = n /\ tcp'[n] = r
      /\ \A d \in 1..Len(tcp) : tcp'[d] = tcp[d]
  BY <1>2, <1>4, <1>7
<1>9. /\ g_connections' \in [Proxies -> [Slots -> Slot]] /\ g_connections'[p][i] = s
      /\ \A x \in Proxies, j \in Slots : x # p \/ j # i => g_connections'[x][j] = g_connections[x][j]
  BY <1>1, <1>6, <1>7 DEF TypeOK
<1>10. Touches(n)
  BY <1>2, <1>5, <1>8, <1>9 DEF Touches
<1>11. \A e \in Ends : EndProper(n, r, e, g_connections')
  <2>1. EndProper(n, r, "server", g_connections')
    BY <1>4, TwoEnds DEF EndProper, EndWith
  <2>2. EndProper(n, r, "client", g_connections')
    BY <1>4, <1>6, <1>9, TwoEnds DEF EndProper, EndWith
  <2>. QED
    BY <2>1, <2>2 DEF Ends
<1>12. SlotsDiffer(r)
  BY <1>3, <1>4 DEF SlotsDiffer
<1>13. Proper'
  BY <1>1, <1>2, <1>8, <1>10, <1>11, <1>12, OthersProper
<1>14. TypeOK'
  <2>1. \A d \in 1..Len(tcp') : \A e \in Ends : tcp'[d].read[e] <= Len(tcp'[d].log[Other(e)])
    <3>1. \A e \in Ends : r.read[e] <= Len(r.log[Other(e)])
      BY <1>4, TwoEnds
    <3>2. \A d \in 1..Len(tcp') : d = n \/ d \in 1..Len(tcp)
      BY <1>2, <1>8
    <3>. QED
      BY <1>1, <1>8, <3>1, <3>2 DEF TypeOK
  <2>2. \A x \in Proxies : \A j \in Slots : SlotProper(g_connections'[x][j], Len(tcp'))
    <3>1. SlotProper(s, n)
      BY <1>2, <1>6 DEF SlotProper
    <3>2. \A x \in Proxies : \A j \in Slots : SlotProper(g_connections[x][j], n)
      BY <1>1, <1>2 DEF TypeOK, SlotProper
    <3>. QED
      BY <1>8, <1>9, <3>1, <3>2
  <2>3. Len(tcp') <= MaxConns
    BY <1>2, <1>8
  <2>4. breaks' \in 0..MaxBreaks /\ worker' \in [Proxies -> Slots \cup {0}]
    BY <1>1 DEF handle_reconnects, TypeOK
  <2>. QED
    BY <1>8, <1>9, <2>1, <2>2, <2>3, <2>4 DEF TypeOK, SlotProper
<1>15. OneConnectionPerPeer'
  BY <1>1, <1>6, <1>7, OnceKept
<1>16. MadeKept
  BY <1>1, <1>2, <1>10, OthersMade
<1>. QED
  BY <1>13, <1>14, <1>15, <1>16 DEF IInv

LEMMA AcceptStep ==
    ASSUME IInv, NEW p \in Proxies, NEW c \in 1..Len(tcp), handle_accept(p, c)
    PROVE  IInv' /\ MadeKept
<1>1. TypeOK /\ Proper /\ OneConnectionPerPeer
  BY DEF IInv
<1>2. /\ tcp[c].proxy["server"] = p /\ tcp[c].open["server"] /\ tcp[c].slot["server"] = 0
      /\ UNCHANGED <<breaks, worker>>
  BY DEF handle_accept, Has
<1>3. ~Made(c)
  BY <1>2, TwoEnds DEF Made
<1>4. CASE Free(p) = {} /\ tcp' = io_close(c, "server") /\ UNCHANGED g_connections
  <2>1. Has(p, c, "server", 0)
    BY DEF handle_accept
  <2>2. "server" \in Ends /\ 0 \in Slots \cup {0}
    BY DEF Ends
  <2>. QED
    BY <1>2, <1>3, <1>4, <2>1, <2>2, CloseStep
<1>5. CASE \E i \in Free(p) :
           /\ g_connections' = [g_connections EXCEPT ![p][i] =
                  [reset_info_block(@) EXCEPT !.state = "CONNECTING", !.fd = c]]
           /\ tcp' = [tcp EXCEPT ![c].slot["server"] = i, ![c].wantread["server"] = TRUE]
  <2>1. PICK i \in Free(p) :
           /\ g_connections' = [g_connections EXCEPT ![p][i] =
                  [reset_info_block(@) EXCEPT !.state = "CONNECTING", !.fd = c]]
           /\ tcp' = [tcp EXCEPT ![c].slot["server"] = i, ![c].wantread["server"] = TRUE]
    BY <1>5
  <2>. DEFINE r == [tcp[c] EXCEPT !.slot["server"] = i, !.wantread["server"] = TRUE]
              s == [reset_info_block(g_connections[p][i]) EXCEPT !.state = "CONNECTING", !.fd = c]
  <2>2. i \in Slots /\ i # 0 /\ ~Outgoing(p, i) /\ g_connections[p][i].state = "DISCONNECTED"
    BY DEF Free, Slots
  <2>3. g_connections[p][i] \in Slot /\ g_connections[p][i].fd = 0
    BY <1>1, <2>2, SlotFields
  <2>4. tcp[c] \in Connection /\ c \in Nat /\ c # 0 /\ c \in 0..Len(tcp) /\ Len(tcp) \in Nat /\ tcp \in Seq(Connection)
    BY <1>1 DEF TypeOK
  <2>5. s \in Slot /\ s.fd = c /\ s.state = "CONNECTING" /\ s.tracker_id = None
    BY <2>3, <2>4 DEF reset_info_block, Slot, States
  <2>6. /\ r \in Connection /\ r.proxy = tcp[c].proxy /\ r.open = tcp[c].open
        /\ r.log = tcp[c].log /\ r.read = tcp[c].read
        /\ r.slot["server"] = i /\ r.slot["client"] = tcp[c].slot["client"]
        /\ r.wantread["client"] = tcp[c].wantread["client"]
    BY <2>2, <2>4, TwoEnds DEF Connection
  <2>7. tcp' = [tcp EXCEPT ![c] = r]
    BY <2>1
  <2>8. g_connections' = [g_connections EXCEPT ![p][i] = s]
    BY <2>1
  <2>. HIDE DEF r, s
  <2>9. /\ g_connections' \in [Proxies -> [Slots -> Slot]] /\ g_connections'[p][i] = s
        /\ \A x \in Proxies, j \in Slots : x # p \/ j # i => g_connections'[x][j] = g_connections[x][j]
    BY <1>1, <2>2, <2>5, <2>8 DEF TypeOK
  <2>10. TypeOK' /\ Len(tcp') = Len(tcp) /\ tcp'[c] = r /\ \A d \in 1..Len(tcp) \ {c} : tcp'[d] = tcp[d]
    <3>1. SlotProper(s, Len(tcp))
      BY <2>4, <2>5 DEF SlotProper
    <3>2. Bounded(r)
      BY <1>1, <2>6 DEF TypeOK, Bounded
    <3>3. breaks' \in 0..MaxBreaks /\ worker' \in [Proxies -> Slots \cup {0}]
      BY <1>1, <1>2 DEF TypeOK
    <3>4. \A x \in Proxies, j \in Slots :
             g_connections'[x][j] = g_connections[x][j] \/ SlotProper(g_connections'[x][j], Len(tcp))
      BY <2>9, <3>1
    <3>5. OneChange(c, r)
      BY <2>6, <2>7, <2>9, <3>2, <3>3, <3>4 DEF OneChange
    <3>. QED
      BY <1>1, <3>5, TypeFrame
  <2>11. Touches(c)
    BY <2>3, <2>9, <2>10 DEF Touches
  <2>12. EndProper(c, r, "server", g_connections')
    <3>1. EndProper(c, tcp[c], "server", g_connections)
      BY <1>1, TwoEnds DEF Proper
    <3>. QED
      BY <1>2, <2>2, <2>5, <2>6, <2>9, <3>1 DEF EndProper, EndWith
  <2>13. SlotsDiffer(r) /\ EndProper(c, r, "client", g_connections')
    <3>1. EndProper(c, tcp[c], "client", g_connections)
      BY <1>1, TwoEnds DEF Proper
    <3>2. tcp[c].slot["client"] # 0 =>
             /\ tcp[c].proxy["client"] \in Proxies /\ tcp[c].slot["client"] \in Slots
             /\ tcp[c].proxy["client"] # p \/ tcp[c].slot["client"] # i
      <4>1. tcp[c].proxy["client"] \in Proxies /\ tcp[c].slot["client"] \in Slots \cup {0}
        BY <1>1, ConnectionFields, TwoEnds
      <4>. QED
        BY <2>3, <2>4, <3>1, <4>1 DEF EndProper, EndWith
    <3>3. tcp[c].slot["client"] # 0 =>
             g_connections'[tcp[c].proxy["client"]][tcp[c].slot["client"]]
               = g_connections[tcp[c].proxy["client"]][tcp[c].slot["client"]]
      BY <2>9, <3>2
    <3>4. SlotsDiffer(r)
      BY <1>2, <2>6, <3>2 DEF SlotsDiffer
    <3>5. EndProper(c, r, "client", g_connections')
      BY <2>6, <3>1, <3>3 DEF EndProper, EndWith
    <3>. QED
      BY <3>4, <3>5
  <2>14. Proper'
    <3>1. \A e \in Ends : EndProper(c, r, e, g_connections')
      BY <2>12, <2>13 DEF Ends
    <3>. QED
      BY <1>1, <2>4, <2>10, <2>11, <2>13, <3>1, OthersProper
  <2>15. OneConnectionPerPeer'
    BY <1>1, <2>2, <2>5, <2>8, OnceKept
  <2>16. MadeKept
    BY <1>1, <1>3, <2>4, <2>11, OthersMade
  <2>. QED
    BY <2>10, <2>14, <2>15, <2>16 DEF IInv
<1>6. Free(p) # {} => Min(Free(p)) \in Free(p)
  <2>1. Free(p) \in SUBSET Nat
    BY SlotsAssumption DEF Free, Slots
  <2>. QED
    BY <2>1, MinProperties
<1>. QED
  BY <1>4, <1>5, <1>6 DEF handle_accept

-----------------------------------------------------------------------------
(* Events of a connection that has a slot *)

LEMMA EventFacts ==
    ASSUME IInv, NEW p \in Proxies, NEW c \in 1..Len(tcp), NEW e \in Ends, NEW i \in Slots, Has(p, c, e, i)
    PROVE  /\ TypeOK /\ tcp \in Seq(Connection) /\ tcp[c] \in Connection /\ Bounded(tcp[c]) /\ c \in Nat /\ c # 0
           /\ g_connections[p][i] \in Slot /\ g_connections[p][i].fd = c /\ i # 0
           /\ g_connections[p][i].tracker_id # None <=> g_connections[p][i].state = "CONNECTED"
           /\ g_connections[p][i].state \in {"CONNECTING", "WAITTRACKERID", "CONNECTED"}
           /\ EndProper(c, tcp[c], e, g_connections) /\ EndProper(c, tcp[c], Other(e), g_connections)
           /\ Other(e) \in Ends /\ Other(e) # e
<1>1. TypeOK /\ Proper /\ i # 0
  BY DEF IInv, Slots
<1>2. tcp \in Seq(Connection) /\ tcp[c] \in Connection /\ Bounded(tcp[c]) /\ c \in Nat /\ c # 0
  BY <1>1 DEF TypeOK, Bounded
<1>3. Other(e) \in Ends /\ Other(e) # e
  BY TwoEnds
<1>4. EndProper(c, tcp[c], e, g_connections) /\ EndProper(c, tcp[c], Other(e), g_connections)
  BY <1>1, <1>3 DEF Proper
<1>5. g_connections[p][i].fd = c
  BY <1>1, <1>4 DEF EndProper, EndWith, Has
<1>6. /\ g_connections[p][i] \in Slot
      /\ g_connections[p][i].fd = 0 <=> g_connections[p][i].state = "DISCONNECTED"
      /\ g_connections[p][i].tracker_id # None <=> g_connections[p][i].state = "CONNECTED"
      /\ g_connections[p][i].state \in States
  BY <1>1, SlotFields
<1>. QED
  BY <1>1, <1>2, <1>3, <1>4, <1>5, <1>6 DEF States

\* What an end may have written.
Logs(p) == {<<>>, <<p>>, <<p, "data">>}

LEMMA LogFields ==
    ASSUME NEW p \in Proxies
    PROVE  /\ \A l \in Logs(p) : l \in Seq(Proxies \cup {"data"}) /\ Len(l) \in Nat /\ (l # <<>> <=> Len(l) > 0)
           /\ \A l \in Logs(p) : Len(l) <= 2
           /\ \A l \in Logs(p) : Len(l) > 0 => l[1] = p
           /\ Len(<<>>) = 0 /\ Len(<<p>>) = 1 /\ Len(<<p, "data">>) = 2
<1>1. <<p>> \in Seq(Proxies \cup {"data"}) /\ Len(<<p>>) = 1 /\ <<p>>[1] = p
  OBVIOUS
<1>2. <<p, "data">> \in Seq(Proxies \cup {"data"}) /\ Len(<<p, "data">>) = 2 /\ <<p, "data">>[1] = p
  OBVIOUS
<1>3. <<>> \in Seq(Proxies \cup {"data"}) /\ Len(<<>>) = 0
  OBVIOUS
<1>. QED
  BY <1>1, <1>2, <1>3 DEF Logs

\* What an end has written after its id or data.
LEMMA WrittenId ==
    ASSUME NEW c, NEW e, NEW m, tcp[c].log[e] = <<>>
    PROVE  Written(c, e, m) = <<m>>
BY DEF Written

LEMMA AppendPair ==
    ASSUME NEW S, NEW a \in S, NEW b \in S
    PROVE  Append(<<a>>, b) = <<a, b>>
<1>. DEFINE x == Append(<<a>>, b)
            y == <<a, b>>
<1>1. <<a>> \in Seq(S) /\ Len(<<a>>) = 1 /\ <<a>>[1] = a
  OBVIOUS
<1>2. y \in Seq(S) /\ Len(y) = 2 /\ y[1] = a /\ y[2] = b
  OBVIOUS
<1>3. x \in Seq(S) /\ Len(x) = 2 /\ x[1] = a /\ x[2] = b
  BY <1>1, AppendProperties
<1>. HIDE DEF x, y
<1>4. \A j \in 1..Len(x) : x[j] = y[j]
  BY <1>2, <1>3
<1>5. x = y
  BY <1>2, <1>3, <1>4, SeqEqual
<1>. QED
  BY <1>5 DEF x, y

LEMMA WrittenData ==
    ASSUME NEW c, NEW e, NEW p \in Proxies, tcp[c].log[e] \in Logs(p), tcp[c].log[e] # <<>>
    PROVE  Written(c, e, "data") = <<p, "data">>
<1>1. p # "data"
  BY SlotsAssumption
<1>2. CASE tcp[c].log[e] = <<p>>
  <2>0. Append(<<p>>, "data") = <<p, "data">>
    <3>1. p \in Proxies \cup {"data"} /\ "data" \in Proxies \cup {"data"}
      OBVIOUS
    <3>. QED
      BY <3>1, AppendPair
  <2>1. Len(<<p>>) = 1 /\ <<p>>[1] = p
    OBVIOUS
  <2>2. ~(<<p>>[Len(<<p>>)] = "data")
    BY <1>1, <2>1
  <2>3. Written(c, e, "data") = Append(<<p>>, "data")
    BY <1>2, <2>2 DEF Written
  <2>. QED
    BY <2>0, <2>3
<1>3. CASE tcp[c].log[e] = <<p, "data">>
  BY <1>3 DEF Written
<1>. QED
  BY <1>2, <1>3 DEF Logs

\* Connection t is r after end e has read up to message n and its log has become l.
ReadAndLog(r, t, e, n, l) ==
    /\ t \in Connection /\ Bounded(t) /\ r \in Connection
    /\ r.proxy = t.proxy /\ r.slot = t.slot /\ r.open = t.open
    /\ n \in Nat /\ r.read = [t.read EXCEPT ![e] = n] /\ n <= Len(t.log[Other(e)])
    /\ l \in Seq(Proxies \cup {"data"}) /\ r.log = [t.log EXCEPT ![e] = l] /\ Len(t.log[e]) <= Len(l)
    /\ \A x \in Ends \ {e} : r.wantread[x] = t.wantread[x]

LEMMA EndFields ==
    ASSUME NEW r, NEW t, NEW e \in Ends, NEW n, NEW l, ReadAndLog(r, t, e, n, l)
    PROVE  Changed(r, t, e) /\ r.read[e] = n /\ r.log[e] = l
<1>. USE DEF ReadAndLog
<1>. DEFINE o == Other(e)
<1>1. o \in Ends /\ o # e /\ Other(o) = e /\ \A x \in Ends : x = e \/ x = o
  BY TwoEnds
<1>2. t.read \in [Ends -> Nat] /\ t.log \in [Ends -> Seq(Proxies \cup {"data"})]
  BY DEF Connection
<1>3. r.read[e] = n /\ r.log[e] = l /\ r.read[o] = t.read[o] /\ r.log[o] = t.log[o]
  BY <1>1, <1>2
<1>4. t.read[o] <= Len(t.log[e]) /\ t.read[o] \in Nat /\ Len(t.log[e]) \in Nat /\ Len(l) \in Nat
  BY <1>1, <1>2 DEF Bounded
<1>. HIDE DEF o
<1>5. r.read[o] <= Len(r.log[e])
  BY <1>3, <1>4
<1>6. r.read[e] <= Len(r.log[o])
  BY <1>3 DEF o
<1>7. Bounded(r)
  BY <1>1, <1>5, <1>6 DEF Bounded, o
<1>. QED
  BY <1>1, <1>3, <1>7 DEF Changed

\* The slot of an event may be dropped, unless the connection is made at both ends.
LEMMA DropStep ==
    ASSUME IInv, NEW p \in Proxies, NEW c \in 1..Len(tcp), NEW e \in Ends, NEW i \in Slots, Has(p, c, e, i),
           Drop(p, c, e, i) \/ (tcp' = io_close(c, e) /\ UNCHANGED g_connections), UNCHANGED <<breaks, worker>>,
           g_connections[p][i].state # "CONNECTED" \/ AtEnd(c, e)
    PROVE  IInv' /\ MadeKept
<1>1. ~(Made(c) /\ tcp[c].status = "connected")
  <2>1. CASE g_connections[p][i].state # "CONNECTED"
    BY <2>1 DEF Made, Has
  <2>2. CASE AtEnd(c, e)
    <3>1. EndProper(c, tcp[c], Other(e), g_connections) /\ Other(e) \in Ends
      BY EventFacts
    <3>2. tcp[c].status = "broken" \/ tcp[c].slot[Other(e)] = 0
      BY <2>2, <3>1 DEF AtEnd, EndProper, EndWith
    <3>. QED
      BY <3>1, <3>2 DEF Made
  <2>. QED
    BY <2>1, <2>2
<1>2. i \in Slots \cup {0}
  OBVIOUS
<1>3. tcp' = io_close(c, e)
  BY DEF Drop
<1>4. \/ UNCHANGED g_connections
      \/ i \in Slots /\ g_connections' = [g_connections EXCEPT ![p][i] = reset_info_block(@)]
  BY DEF Drop
<1>. QED
  BY <1>1, <1>2, <1>3, <1>4, CloseStep

\* The other end's id arrives (the first disjunct of handle_read_handshake).
Hello(p, c, e, i) ==
    LET id == tcp[c].log[Other(e)][tcp[c].read[e] + 1]
        answer == ~Outgoing(p, i) /\ g_connections[p][i].state = "CONNECTING" IN
    /\ g_connections[p][i].state \in {"CONNECTING", "WAITTRACKERID"}
    /\ tcp[c].wantread[e] /\ Available(c, e) /\ Greeted(p, i, id)
    /\ tcp' = [tcp EXCEPT ![c].read[e] = @ + 1, ![c].log[e] = IF answer THEN Written(c, e, p) ELSE @]
    /\ g_connections' = [g_connections EXCEPT ![p][i].tracker_id = id, ![p][i].state = "CONNECTED"]
    /\ UNCHANGED <<breaks, worker>>

LEMMA HelloStep ==
    ASSUME IInv, NEW p \in Proxies, NEW c \in 1..Len(tcp), NEW e \in Ends, NEW i \in Slots, Has(p, c, e, i),
           Hello(p, c, e, i)
    PROVE  IInv' /\ MadeKept
<1>. DEFINE t == tcp[c]
            o == Other(e)
            id == t.log[o][t.read[e] + 1]
            answer == ~Outgoing(p, i) /\ g_connections[p][i].state = "CONNECTING"
            l == IF answer THEN Written(c, e, p) ELSE t.log[e]
            r == [t EXCEPT !.read[e] = t.read[e] + 1, !.log[e] = l]
            s == [g_connections[p][i] EXCEPT !.tracker_id = id, !.state = "CONNECTED"]
<1>0. Greeted(p, i, id)
  BY DEF Hello
<1>1. /\ TypeOK /\ tcp \in Seq(Connection) /\ t \in Connection /\ Bounded(t) /\ c \in Nat /\ c # 0
      /\ g_connections[p][i] \in Slot /\ g_connections[p][i].fd = c /\ i # 0
      /\ EndProper(c, t, e, g_connections) /\ EndProper(c, t, o, g_connections)
      /\ o \in Ends /\ o # e
  BY EventFacts
<1>2. t.proxy[e] = p /\ t.slot[e] = i /\ t.open[e]
  BY DEF Has
<1>3. /\ t.read[e] = 0
      /\ g_connections[p][i].state = "CONNECTING" => ~Outgoing(p, i) /\ t.log[e] = <<>>
      /\ g_connections[p][i].state = "WAITTRACKERID" => t.log[e] # <<>>
      /\ t.log[e] \in {<<>>, <<p>>, <<p, "data">>}
  BY <1>1, <1>2 DEF EndProper, EndWith, Hello
<1>4. id = t.proxy[o] /\ id \in Proxies /\ id # None /\ Len(t.log[o]) > 0 /\ Len(t.log[o]) \in Nat
  <2>1. t.log[o] \in Logs(t.proxy[o])
    BY <1>1 DEF EndProper, EndWith, Logs
  <2>2. Len(t.log[o]) > 0
    BY <1>3 DEF Available, Hello
  <2>3. t.proxy[o] \in Proxies
    BY <1>1 DEF Connection
  <2>. QED
    BY <1>3, <2>1, <2>2, <2>3, LogFields, SlotsAssumption
<1>5. l \in Logs(p) /\ l # <<>> /\ Len(t.log[e]) <= Len(l) /\ l \in Seq(Proxies \cup {"data"})
  <2>1. CASE answer
    <3>1. l = <<p>> /\ t.log[e] = <<>>
      BY <1>3, <2>1, WrittenId
    <3>. HIDE DEF l
    <3>2. l \in Logs(p)
      BY <3>1 DEF Logs
    <3>3. Len(l) = 1 /\ Len(t.log[e]) = 0
      BY <3>1, LogFields
    <3>4. l \in Seq(Proxies \cup {"data"}) /\ (l # <<>> <=> Len(l) > 0)
      BY <3>2, LogFields, Zenon
    <3>5. Len(t.log[e]) <= Len(l)
      BY <3>3
    <3>. QED
      BY <3>2, <3>3, <3>4, <3>5
  <2>2. CASE ~answer
    <3>1. l = t.log[e] /\ t.log[e] # <<>>
      BY <1>3, <2>2 DEF Hello
    <3>2. l \in Logs(p) /\ t.log[e] \in Logs(p)
      BY <1>3, <3>1 DEF Logs
    <3>3. Len(l) \in Nat
      BY <3>2, LogFields
    <3>. QED
      BY <3>1, <3>2, <3>3, LogFields
  <2>. QED
    BY <2>1, <2>2
<1>6. tcp' = [tcp EXCEPT ![c] = r]
  BY <1>1, ZenonT(30) DEF Hello
<1>7. g_connections' = [g_connections EXCEPT ![p][i] = s]
  BY <1>1 DEF Hello
<1>. HIDE DEF l
<1>8. s \in Slot /\ s.fd = c /\ s.state = "CONNECTED" /\ s.tracker_id = id
  BY <1>1, <1>4 DEF Slot, States
<1>. HIDE DEF s
<1>9. /\ r \in Connection /\ r.proxy = t.proxy /\ r.slot = t.slot /\ r.open = t.open /\ r.wantread = t.wantread
      /\ r.read = [t.read EXCEPT ![e] = 1] /\ r.log = [t.log EXCEPT ![e] = l]
  <2>1. t.read[e] + 1 = 1 /\ 1 \in Nat
    BY <1>3
  <2>2. r = [t EXCEPT !.read[e] = 1, !.log[e] = l]
    BY <2>1
  <2>. HIDE DEF r, t
  <2>3. t \in Connection /\ l \in Seq(Proxies \cup {"data"}) /\ 1 \in Nat
    BY <1>1, <1>5
  <2>. QED
    BY <2>2, <2>3 DEF Connection
<1>. HIDE DEF r, t, o
<1>10. Changed(r, t, e) /\ r.log[e] = l /\ r.read[e] = 1
  <2>1. 1 <= Len(t.log[Other(e)])
    BY <1>4 DEF o
  <2>2. /\ t \in Connection /\ Bounded(t) /\ r \in Connection /\ 1 \in Nat /\ l \in Seq(Proxies \cup {"data"})
        /\ \A x \in Ends \ {e} : r.wantread[x] = t.wantread[x]
    BY <1>1, <1>5, <1>9
  <2>3. ReadAndLog(r, t, e, 1, l)
    BY <1>5, <1>9, <2>1, <2>2 DEF ReadAndLog
  <2>. QED
    BY <2>3, EndFields
<1>11. EndProper(c, r, e, g_connections')
  <2>1. g_connections'[p][i] = s
    <3>1. TypeOK
      BY <1>1
    <3>. QED
      BY <1>7, <1>8, <3>1 DEF TypeOK
  <2>. QED
    BY <1>1, <1>2, <1>5, <1>8, <1>9, <1>10, <2>1 DEF EndProper, EndWith, Logs
<1>. QED
  <2>1. Changed(r, tcp[c], e)
    BY <1>10 DEF t
  <2>2. s.state # "DISCONNECTED" /\ (s.tracker_id # None <=> s.state = "CONNECTED")
    BY <1>4, <1>8
  <2>3. UNCHANGED <<breaks, worker>>
    BY DEF Hello
  <2>4. Greeted(p, i, s.tracker_id)
    BY <1>0, <1>8
  <2>. QED
    BY <1>6, <1>7, <1>8, <1>11, <2>1, <2>2, <2>3, <2>4, EventStep

\* Data is read.
ReadData(p, c, e, i) ==
    /\ g_connections[p][i].state = "CONNECTED" /\ Available(c, e)
    /\ tcp' = [tcp EXCEPT ![c].read[e] = @ + 1]
    /\ UNCHANGED <<g_connections, breaks, worker>>

LEMMA ReadDataStep ==
    ASSUME IInv, NEW p \in Proxies, NEW c \in 1..Len(tcp), NEW e \in Ends, NEW i \in Slots, Has(p, c, e, i),
           ReadData(p, c, e, i)
    PROVE  IInv' /\ MadeKept
<1>. DEFINE t == tcp[c]
            s == g_connections[p][i]
            n == t.read[e] + 1
            l == t.log[e]
            r == [t EXCEPT !.read[e] = n]
<1>1. /\ TypeOK /\ t \in Connection /\ Bounded(t)
      /\ s \in Slot /\ s.fd = c /\ i # 0 /\ (s.tracker_id # None <=> s.state = "CONNECTED")
      /\ EndProper(c, t, e, g_connections) /\ Other(e) \in Ends
  BY EventFacts
<1>2. t.slot[e] = i /\ t.proxy[e] = p /\ t.open[e] /\ s.state = "CONNECTED"
  BY DEF Has, ReadData
<1>3. t.read \in [Ends -> Nat] /\ t.log \in [Ends -> Seq(Proxies \cup {"data"})]
  BY <1>1 DEF Connection
<1>4. n \in Nat /\ l \in Seq(Proxies \cup {"data"}) /\ Len(l) \in Nat /\ n <= Len(t.log[Other(e)])
  BY <1>1, <1>3 DEF ReadData, Available
<1>5. tcp' = [tcp EXCEPT ![c] = r]
  BY DEF ReadData
<1>6. g_connections' = [g_connections EXCEPT ![p][i] = s]
  BY <1>1 DEF TypeOK, ReadData
<1>. HIDE DEF n
<1>7. /\ r \in Connection /\ r.proxy = t.proxy /\ r.slot = t.slot /\ r.open = t.open /\ r.wantread = t.wantread
      /\ r.read = [t.read EXCEPT ![e] = n] /\ r.log = [t.log EXCEPT ![e] = l]
  BY <1>1, <1>3, <1>4 DEF Connection
<1>. HIDE DEF r, t, l, s
<1>8. Changed(r, t, e) /\ r.log[e] = l
  <2>1. ReadAndLog(r, t, e, n, l)
    BY <1>1, <1>4, <1>7 DEF ReadAndLog, l
  <2>. QED
    BY <2>1, EndFields
<1>9. Changed(r, tcp[c], e)
  BY <1>8 DEF t
<1>10. EndProper(c, r, e, g_connections')
  <2>1. g_connections' = g_connections /\ g_connections[p][i] = s
    BY DEF ReadData, s
  <2>. QED
    BY <1>1, <1>2, <1>7, <1>8, <2>1 DEF EndProper, EndWith, l
<1>11. s.state # "DISCONNECTED" /\ g_connections[p][i].state = "CONNECTED" /\ s.tracker_id = g_connections[p][i].tracker_id
  BY <1>2 DEF s
<1>12. UNCHANGED <<breaks, worker>>
  BY DEF ReadData
<1>. QED
  BY <1>1, <1>2, <1>5, <1>6, <1>9, <1>10, <1>11, <1>12, EventStep

\* Our id goes first (the second disjunct of handle_write_connecting).
SendId(p, c, e, i) ==
    /\ g_connections[p][i].state = "CONNECTING"
    /\ tcp' = [tcp EXCEPT ![c].log[e] = Written(c, e, p), ![c].wantwrite[e] = FALSE, ![c].wantread[e] = TRUE]
    /\ g_connections' = [g_connections EXCEPT ![p][i].state = "WAITTRACKERID"]
    /\ UNCHANGED <<breaks, worker>>

LEMMA SendIdStep ==
    ASSUME IInv, NEW p \in Proxies, NEW c \in 1..Len(tcp), NEW e \in Ends, NEW i \in Slots, Has(p, c, e, i),
           SendId(p, c, e, i)
    PROVE  IInv' /\ MadeKept
<1>. DEFINE t == tcp[c]
            s == [g_connections[p][i] EXCEPT !.state = "WAITTRACKERID"]
            n == t.read[e]
            l == Written(c, e, p)
            r == [t EXCEPT !.log[e] = l, !.wantwrite[e] = FALSE, !.wantread[e] = TRUE]
<1>1. /\ TypeOK /\ t \in Connection /\ Bounded(t)
      /\ g_connections[p][i] \in Slot /\ g_connections[p][i].fd = c /\ i # 0
      /\ (g_connections[p][i].tracker_id # None <=> g_connections[p][i].state = "CONNECTED")
      /\ EndProper(c, t, e, g_connections) /\ Other(e) \in Ends
  BY EventFacts
<1>2. t.slot[e] = i /\ t.proxy[e] = p /\ t.open[e] /\ g_connections[p][i].state = "CONNECTING"
  BY DEF Has, SendId
<1>3. t.read \in [Ends -> Nat] /\ t.log \in [Ends -> Seq(Proxies \cup {"data"})]
  BY <1>1 DEF Connection
<1>4. t.log[e] = <<>> /\ n = 0 /\ Len(t.log[e]) = 0
  BY <1>1, <1>2 DEF EndProper, EndWith
<1>5. l = <<p>>
  BY <1>4, WrittenId
<1>6. tcp' = [tcp EXCEPT ![c] = r]
  BY DEF SendId
<1>. HIDE DEF l
<1>7. l \in Logs(p) /\ Len(l) = 1 /\ l # <<>>
  BY <1>5 DEF Logs
<1>8. l \in Seq(Proxies \cup {"data"})
  BY <1>7, LogFields, Zenon
<1>9. n \in Nat /\ n <= Len(t.log[Other(e)]) /\ Len(t.log[e]) <= Len(l)
  BY <1>1, <1>3, <1>4, <1>7 DEF Bounded
<1>10. g_connections' = [g_connections EXCEPT ![p][i] = s]
  BY DEF SendId
<1>11. s \in Slot /\ s.fd = c /\ s.state = "WAITTRACKERID" /\ s.tracker_id = None
  BY <1>1, <1>2 DEF Slot, States
<1>12. /\ r \in Connection /\ r.proxy = t.proxy /\ r.slot = t.slot /\ r.open = t.open
       /\ \A x \in Ends \ {e} : r.wantread[x] = t.wantread[x]
       /\ r.read = [t.read EXCEPT ![e] = n] /\ r.log = [t.log EXCEPT ![e] = l]
  BY <1>1, <1>3, <1>8 DEF Connection
<1>. HIDE DEF r, t, s, n
<1>13. Changed(r, t, e) /\ r.log[e] = l /\ r.read[e] = n
  <2>1. ReadAndLog(r, t, e, n, l)
    BY <1>1, <1>8, <1>9, <1>12 DEF ReadAndLog
  <2>. QED
    BY <2>1, EndFields
<1>14. Changed(r, tcp[c], e)
  BY <1>13 DEF t
<1>15. EndProper(c, r, e, g_connections')
  <2>1. TypeOK
    BY <1>1
  <2>2. g_connections'[p][i] = s
    BY <1>10, <1>11, <2>1 DEF TypeOK
  <2>. QED
    BY <1>1, <1>2, <1>4, <1>7, <1>11, <1>12, <1>13, <2>2, SMTT(30) DEF EndProper, EndWith, Logs
<1>16. s.state # "DISCONNECTED" /\ s.state # "CONNECTED" /\ (s.tracker_id # None <=> s.state = "CONNECTED")
       /\ g_connections[p][i].state # "CONNECTED"
  BY <1>2, <1>11
<1>17. UNCHANGED <<breaks, worker>>
  BY DEF SendId
<1>. QED
  BY <1>6, <1>10, <1>11, <1>14, <1>15, <1>16, <1>17, EventStep

\* Data is sent, or there is none (the second disjunct of handle_write_connected).
SendData(p, c, e, i, all) ==
    /\ g_connections[p][i].state = "CONNECTED"
    /\ tcp' = [tcp EXCEPT ![c].log[e] = IF g_connections[p][i].outdata THEN Written(c, e, "data") ELSE @,
                          ![c].wantwrite[e] = ~all]
    /\ g_connections' = [g_connections EXCEPT ![p][i].outdata = @ /\ ~all]
    /\ UNCHANGED <<breaks, worker>>

LEMMA SendDataStep ==
    ASSUME IInv, NEW p \in Proxies, NEW c \in 1..Len(tcp), NEW e \in Ends, NEW i \in Slots, Has(p, c, e, i),
           NEW all \in BOOLEAN, SendData(p, c, e, i, all)
    PROVE  IInv' /\ MadeKept
<1>. DEFINE t == tcp[c]
            out == g_connections[p][i].outdata
            o == out /\ ~all
            w == ~all
            s == [g_connections[p][i] EXCEPT !.outdata = o]
            n == t.read[e]
            l == IF out THEN Written(c, e, "data") ELSE t.log[e]
            r == [t EXCEPT !.log[e] = l, !.wantwrite[e] = w]
<1>1. /\ TypeOK /\ t \in Connection /\ Bounded(t)
      /\ g_connections[p][i] \in Slot /\ g_connections[p][i].fd = c /\ i # 0
      /\ (g_connections[p][i].tracker_id # None <=> g_connections[p][i].state = "CONNECTED")
      /\ EndProper(c, t, e, g_connections) /\ Other(e) \in Ends
  BY EventFacts
<1>2. t.slot[e] = i /\ t.proxy[e] = p /\ t.open[e] /\ g_connections[p][i].state = "CONNECTED"
  BY DEF Has, SendData
<1>3. t.read \in [Ends -> Nat] /\ t.log \in [Ends -> Seq(Proxies \cup {"data"})]
  BY <1>1 DEF Connection
<1>4. t.log[e] # <<>> /\ t.log[e] \in Logs(p)
  BY <1>1, <1>2 DEF EndProper, EndWith, Logs
<1>5. l \in Logs(p) /\ l # <<>> /\ Len(t.log[e]) <= Len(l)
  <2>1. CASE out
    <3>1. l = <<p, "data">>
      BY <1>4, <2>1, WrittenData
    <3>2. Len(l) = 2 /\ l \in Logs(p)
      BY <3>1, LogFields DEF Logs
    <3>3. Len(t.log[e]) <= 2
      <4>1. \A m \in Logs(p) : Len(m) <= 2
        BY LogFields
      <4>. QED
        BY <1>4, <4>1
    <3>. HIDE DEF l
    <3>4. l # <<>>
      <4>1. Len(l) > 0
        BY <3>2
      <4>. QED
        BY <3>2, <4>1, LogFields, Zenon
    <3>5. Len(t.log[e]) <= Len(l)
      BY <3>2, <3>3
    <3>. QED
      BY <3>2, <3>4, <3>5
  <2>2. CASE ~out
    <3>1. l = t.log[e] /\ Len(t.log[e]) \in Nat
      BY <1>3, <2>2
    <3>. QED
      BY <1>4, <3>1
  <2>. QED
    BY <2>1, <2>2
<1>6. tcp' = [tcp EXCEPT ![c] = r]
  BY DEF SendData
<1>7. g_connections' = [g_connections EXCEPT ![p][i] = s]
  BY DEF SendData
<1>. HIDE DEF l
<1>8. l \in Seq(Proxies \cup {"data"})
  BY <1>5, LogFields, Zenon
<1>9. n \in Nat /\ n <= Len(t.log[Other(e)])
  BY <1>1, <1>3 DEF Bounded
<1>10. o \in BOOLEAN /\ w \in BOOLEAN
  OBVIOUS
<1>. HIDE DEF o, w
<1>11. s \in Slot /\ s.fd = c /\ s.state = "CONNECTED" /\ s.tracker_id = g_connections[p][i].tracker_id
  BY <1>1, <1>2, <1>10 DEF Slot
<1>12. /\ r \in Connection /\ r.proxy = t.proxy /\ r.slot = t.slot /\ r.open = t.open /\ r.wantread = t.wantread
       /\ r.read = [t.read EXCEPT ![e] = n] /\ r.log = [t.log EXCEPT ![e] = l]
  BY <1>1, <1>3, <1>8, <1>10 DEF Connection
<1>. HIDE DEF r, t, s, n
<1>13. Changed(r, t, e) /\ r.log[e] = l /\ r.read[e] = n
  <2>1. ReadAndLog(r, t, e, n, l)
    BY <1>1, <1>5, <1>8, <1>9, <1>12 DEF ReadAndLog
  <2>. QED
    BY <2>1, EndFields
<1>14. Changed(r, tcp[c], e)
  BY <1>13 DEF t
<1>15. EndProper(c, r, e, g_connections')
  <2>1. TypeOK
    BY <1>1
  <2>2. g_connections'[p][i] = s
    BY <1>7, <1>11, <2>1 DEF TypeOK
  <2>. QED
    BY <1>1, <1>2, <1>5, <1>11, <1>12, <1>13, <2>2 DEF EndProper, EndWith, Logs
<1>16. s.state # "DISCONNECTED" /\ (s.tracker_id # None <=> s.state = "CONNECTED")
  BY <1>1, <1>2, <1>11
<1>17. UNCHANGED <<breaks, worker>>
  BY DEF SendData
<1>. QED
  BY <1>2, <1>6, <1>7, <1>11, <1>14, <1>15, <1>16, <1>17, EventStep

LEMMA ReadStep ==
    ASSUME IInv, NEW p \in Proxies, NEW c \in 1..Len(tcp), NEW e \in Ends, NEW i \in Slots, handle_read(p, c, e, i)
    PROVE  IInv' /\ MadeKept
<1>1. Has(p, c, e, i) /\ UNCHANGED <<breaks, worker>>
  BY DEF handle_read
<1>2. CASE Hello(p, c, e, i)
  BY <1>1, <1>2, HelloStep
<1>3. CASE ReadData(p, c, e, i)
  BY <1>1, <1>3, ReadDataStep
<1>4. CASE Drop(p, c, e, i) /\ (g_connections[p][i].state # "CONNECTED" \/ AtEnd(c, e))
  BY <1>1, <1>4, DropStep
<1>. QED
  BY <1>2, <1>3, <1>4
     DEF handle_read, handle_read_handshake, handle_read_connected, Hello, ReadData

LEMMA WriteStep ==
    ASSUME IInv, NEW p \in Proxies, NEW c \in 1..Len(tcp), NEW e \in Ends, NEW i \in Slots, handle_write(p, c, e, i)
    PROVE  IInv' /\ MadeKept
<1>1. Has(p, c, e, i) /\ UNCHANGED <<breaks, worker>>
  BY DEF handle_write
<1>2. CASE SendId(p, c, e, i)
  BY <1>1, <1>2, SendIdStep
<1>3. CASE \E all \in BOOLEAN : SendData(p, c, e, i, all)
  BY <1>1, <1>3, SendDataStep
<1>4. CASE /\ Drop(p, c, e, i) \/ (tcp' = io_close(c, e) /\ UNCHANGED g_connections)
           /\ g_connections[p][i].state # "CONNECTED" \/ AtEnd(c, e)
  BY <1>1, <1>4, DropStep
<1>. QED
  BY <1>2, <1>3, <1>4
     DEF handle_write, handle_write_connecting, handle_write_connected, handle_write_default, SendId, SendData

-----------------------------------------------------------------------------
(* The theorems *)

LEMMA InvInit == Init => IInv
<1>. SUFFICES ASSUME Init PROVE IInv
  OBVIOUS
<1>. DEFINE s == [state |-> "DISCONNECTED", tracker_id |-> None, fd |-> 0, outdata |-> FALSE]
<1>1. /\ g_connections = [p \in Proxies |-> [i \in Slots |-> s]]
      /\ tcp = <<>> /\ breaks = 0 /\ worker = [p \in Proxies |-> 0]
  BY DEF Init
<1>2. s \in Slot /\ s.state = "DISCONNECTED" /\ s.fd = 0 /\ s.tracker_id = None
  BY DEF Slot, States
<1>. HIDE DEF s
<1>3. tcp \in Seq(Connection) /\ Len(tcp) = 0
  BY <1>1
<1>4. g_connections \in [Proxies -> [Slots -> Slot]] /\ \A p \in Proxies : \A i \in Slots : g_connections[p][i] = s
  BY <1>1, <1>2
<1>5. breaks \in 0..MaxBreaks /\ Len(tcp) <= MaxConns /\ worker \in [Proxies -> Slots \cup {0}]
  BY <1>1, <1>3, SlotsAssumption
<1>6. TypeOK
  BY <1>2, <1>3, <1>4, <1>5 DEF TypeOK
<1>7. Proper /\ OneConnectionPerPeer
  BY <1>2, <1>3, <1>4 DEF Proper, OneConnectionPerPeer
<1>. QED
  BY <1>6, <1>7 DEF IInv

\* Every step keeps the invariant and the connections that are made at both ends.
LEMMA Step == IInv /\ [Next]_vars => IInv' /\ MadeKept
<1>. SUFFICES ASSUME IInv, [Next]_vars
              PROVE  IInv' /\ MadeKept
  OBVIOUS
<1>1. ASSUME NEW p \in Proxies, Proxy(p)
      PROVE  IInv' /\ MadeKept
  <2>1. ASSUME NEW i \in Slots, handle_reconnects(p, i)
        PROVE  IInv' /\ MadeKept
    BY <2>1, ReconnectStep
  <2>2. ASSUME NEW c \in 1..Len(tcp), handle_accept(p, c)
        PROVE  IInv' /\ MadeKept
    BY <2>2, AcceptStep
  <2>3. ASSUME NEW c \in 1..Len(tcp), NEW e \in Ends, NEW i \in Slots, handle_read(p, c, e, i)
        PROVE  IInv' /\ MadeKept
    BY <2>3, ReadStep
  <2>4. ASSUME NEW c \in 1..Len(tcp), NEW e \in Ends, NEW i \in Slots, handle_write(p, c, e, i)
        PROVE  IInv' /\ MadeKept
    BY <2>4, WriteStep
  <2>5. ASSUME NEW i \in Slots, streamsync_check(p, i)
        PROVE  IInv' /\ MadeKept
    BY <2>5, CheckStep
  <2>6. CASE streamsync_add(p)
    BY <2>6, AddStep
  <2>. QED
    BY <1>1, <2>1, <2>2, <2>3, <2>4, <2>5, <2>6 DEF Proxy, server_mainloop
<1>2. ASSUME NEW c \in 1..Len(tcp), Connect(c) \/ Break(c)
      PROVE  IInv' /\ MadeKept
  BY <1>2, NetworkStep
<1>3. CASE UNCHANGED vars
  BY <1>3, StutterStep
<1>. QED
  BY <1>1, <1>2, <1>3 DEF Next, Network, Finished

\* What a state with the invariant promises.
LEMMA Promises == IInv => SlotsAgree /\ GreetsOnce
<1>. SUFFICES ASSUME IInv PROVE SlotsAgree /\ GreetsOnce
  OBVIOUS
<1>1. TypeOK /\ Proper /\ OneConnectionPerPeer
  BY DEF IInv
<1>2. SocketsOwned
  BY <1>1 DEF Proper, EndProper, EndWith, SocketsOwned
<1>3. GreetsOnce
  BY <1>1 DEF Proper, EndProper, EndWith, GreetsOnce
<1>. QED
  BY <1>1, <1>2, <1>3 DEF SlotsAgree

\* The inductive invariant, of every behaviour.
THEOREM Invariance == Spec => []IInv
<1>1. IInv /\ [Next]_vars => IInv'
  BY Step
<1>. QED
  BY <1>1, InvInit, PTL DEF Spec

\* reset_info_block, io_close and the handlers keep the slots, the sockets and the ids of each
\* proxy in agreement: no socket is lost, and no peer is connected to twice.
THEOREM SlotsCorrect == Spec => []SlotsAgree
BY Invariance, Promises, PTL

\* handle_read and handle_write of both ends send each id once and before any data, whatever the
\* sending thread does in between.
THEOREM GreetingOnce == Spec => []GreetsOnce
BY Invariance, Promises, PTL

\* A connection that is made at both ends stays until the network breaks it.
THEOREM MadeConnectionsStay == Spec => MadeStays
<1>1. IInv /\ [Next]_vars =>
        [\A c \in 1..Len(tcp) : Made(c) /\ tcp[c].status = "connected" => Made(c)' \/ tcp[c].status' = "broken"]_vars
  BY Step DEF MadeKept
<1>. QED
  BY <1>1, Invariance, PTL DEF Spec, MadeStays
=============================================================================
