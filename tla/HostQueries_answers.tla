-------------------------- MODULE HostQueries_answers --------------------------
(***************************************************************************)
(* HostQueries: a program reads answers to its own queries only, each at   *)
(* most once, in the order in which it asked.                              *)
(*                                                                         *)
(* One half is about the traffic between Screen, the server and the        *)
(* clients: as long as nothing comes too late, the query in flight is at   *)
(* one place, and what comes back for its token is its answer              *)
(* (TrafficInv).  The other is about the panes: one that reads on has no   *)
(* question on its way, and what is written to its program is behind the   *)
(* items that it has read (AskInv).                                        *)
(***************************************************************************)
EXTENDS HostQueries_proofs

(* One element of a kind in a sequence. *)

\* Nothing in s is in T; x is, and nothing else.
Clear(s, T) == \A i \in 1 .. Len(s) : s[i] \notin T
Sole(s, T, x) ==
  \E k \in 1 .. Len(s) : /\ s[k] = x
                         /\ \A i \in 1 .. Len(s) : i # k => s[i] \notin T

LEMMA ClearEmpty ==
  ASSUME NEW T
  PROVE  Clear(<<>>, T)
  BY DEF Clear

LEMMA ClearOne ==
  ASSUME NEW T, NEW x
  PROVE  /\ x \notin T => Clear(<<x>>, T)
         /\ Sole(<<x>>, T, x)
  BY DEF Clear, Sole

LEMMA Appending ==
  ASSUME NEW S, NEW s \in Seq(S), NEW x \in S, NEW T, NEW u, u = Append(s, x)
  PROVE  /\ Clear(s, T) /\ x \notin T => Clear(u, T)
         /\ Clear(s, T) => Sole(u, T, x)
         /\ \A y : Sole(s, T, y) /\ x \notin T => Sole(u, T, y)
  <1> DEFINE n == Len(s)
  <1>1. /\ Len(u) = n + 1 /\ n \in Nat /\ u[n + 1] = x
        /\ \A i \in 1 .. n : u[i] = s[i]
    OBVIOUS
  <1>2. \A i \in 1 .. n + 1 : i \in 1 .. n \/ i = n + 1
    BY <1>1
  <1>3. n + 1 \in 1 .. n + 1 /\ \A i \in 1 .. n : i \in 1 .. n + 1 /\ i # n + 1
    BY <1>1
  <1> HIDE DEF n
  <1>4. Clear(s, T) /\ x \notin T => Clear(u, T)
    BY <1>1, <1>2 DEF Clear, n
  <1>5. ASSUME Clear(s, T) PROVE Sole(u, T, x)
    <2>1. \A i \in 1 .. n + 1 : i # n + 1 => u[i] \notin T
      BY <1>1, <1>2, <1>5 DEF Clear, n
    <2>q. QED
      BY <1>1, <1>3, <2>1 DEF Sole
  <1>6. ASSUME NEW y, Sole(s, T, y), x \notin T PROVE Sole(u, T, y)
    <2>1. PICK k \in 1 .. n : /\ s[k] = y
                              /\ \A i \in 1 .. n : i # k => s[i] \notin T
      BY <1>6 DEF Sole, n
    <2>2. \A i \in 1 .. n + 1 : i # k => u[i] \notin T
      BY <1>1, <1>2, <1>6, <2>1
    <2>q. QED
      BY <1>1, <1>3, <2>1, <2>2 DEF Sole
  <1>q. QED
    BY <1>4, <1>5, <1>6

LEMMA Joining ==
  ASSUME NEW S, NEW s \in Seq(S), NEW t \in Seq(S), NEW T, NEW u, u = s \o t
  PROVE  /\ Clear(s, T) /\ Clear(t, T) => Clear(u, T)
         /\ \A y : Sole(s, T, y) /\ Clear(t, T) => Sole(u, T, y)
         /\ \A y : Clear(s, T) /\ Sole(t, T, y) => Sole(u, T, y)
  <1> DEFINE n == Len(s)
             m == Len(t)
  <1>1. /\ Len(u) = n + m /\ n \in Nat /\ m \in Nat
        /\ \A i \in 1 .. n : u[i] = s[i]
        /\ \A i \in 1 .. m : u[n + i] = t[i]
    OBVIOUS
  <1> HIDE DEF n, m
  <1>2. \A i \in 1 .. n + m :
          i \in 1 .. n \/ (i - n \in 1 .. m /\ n + (i - n) = i /\ i \notin 1 .. n)
    BY <1>1
  <1>3. /\ \A i \in 1 .. n : i \in 1 .. n + m
        /\ \A i \in 1 .. m : n + i \in 1 .. n + m /\ n + i \notin 1 .. n
    BY <1>1
  <1>4. \A i \in 1 .. n + m : \/ u[i] = s[i] /\ i \in 1 .. n
                              \/ u[i] = t[i - n] /\ i - n \in 1 .. m /\ i \notin 1 .. n
    BY <1>1, <1>2
  <1>5. Clear(s, T) /\ Clear(t, T) => Clear(u, T)
    BY <1>1, <1>4 DEF Clear, n, m
  <1>6. ASSUME NEW y, Sole(s, T, y), Clear(t, T) PROVE Sole(u, T, y)
    <2>1. PICK k \in 1 .. n : /\ s[k] = y
                              /\ \A i \in 1 .. n : i # k => s[i] \notin T
      BY <1>6 DEF Sole, n
    <2>2. \A i \in 1 .. n + m : i # k => u[i] \notin T
      BY <1>4, <1>6, <2>1 DEF Clear, m
    <2>3. k \in 1 .. n + m /\ u[k] = y
      BY <1>1, <1>3, <2>1
    <2>q. QED
      BY <1>1, <2>2, <2>3 DEF Sole
  <1>7. ASSUME NEW y, Clear(s, T), Sole(t, T, y) PROVE Sole(u, T, y)
    <2>1. PICK k \in 1 .. m : /\ t[k] = y
                              /\ \A i \in 1 .. m : i # k => t[i] \notin T
      BY <1>7 DEF Sole, m
    <2>2. ASSUME NEW i \in 1 .. n + m, i # n + k PROVE u[i] \notin T
      <3>1. CASE u[i] = s[i] /\ i \in 1 .. n
        BY <1>7, <3>1 DEF Clear, n
      <3>2. CASE u[i] = t[i - n] /\ i - n \in 1 .. m
        <4>1. i - n # k
          BY <1>1, <2>2
        <4>q. QED
          BY <2>1, <3>2, <4>1
      <3>q. QED
        BY <1>4, <3>1, <3>2
    <2>3. n + k \in 1 .. n + m /\ u[n + k] = y
      BY <1>1, <1>3, <2>1
    <2>q. QED
      BY <1>1, <2>2, <2>3 DEF Sole
  <1>q. QED
    BY <1>5, <1>6, <1>7

LEMMA Taking ==
  ASSUME NEW S, NEW s \in Seq(S), s # <<>>, NEW T, NEW u, u = Tail(s)
  PROVE  /\ Clear(s, T) => Head(s) \notin T /\ Clear(u, T)
         /\ \A y : Sole(s, T, y) /\ y \in T =>
              \/ Head(s) = y /\ Clear(u, T)
              \/ Head(s) \notin T /\ Sole(u, T, y)
  <1> DEFINE n == Len(s)
             h == Head(s)
  <1>1. /\ n \in Nat \ {0} /\ Len(u) = n - 1 /\ h = s[1]
        /\ \A i \in 1 .. n - 1 : u[i] = s[i + 1]
    OBVIOUS
  <1> HIDE DEF n, h
  <1>2. 1 \in 1 .. n /\ \A i \in 1 .. n - 1 : i + 1 \in 1 .. n /\ i + 1 # 1
    BY <1>1
  <1>3. Clear(s, T) => h \notin T /\ Clear(u, T)
    BY <1>1, <1>2 DEF Clear, n
  <1>4. ASSUME NEW y, Sole(s, T, y), y \in T
        PROVE  (h = y /\ Clear(u, T)) \/ (h \notin T /\ Sole(u, T, y))
    <2>1. PICK k \in 1 .. n : /\ s[k] = y
                              /\ \A i \in 1 .. n : i # k => s[i] \notin T
      BY <1>4 DEF Sole, n
    <2>2. CASE k = 1
      BY <1>1, <1>2, <2>1, <2>2 DEF Clear
    <2>3. CASE k # 1
      <3>1. k - 1 \in 1 .. n - 1 /\ (k - 1) + 1 = k
        BY <1>1, <2>3
      <3>2. u[k - 1] = y
        BY <1>1, <2>1, <3>1
      <3>3. ASSUME NEW i \in 1 .. n - 1, i # k - 1 PROVE u[i] \notin T
        <4>1. i + 1 # k
          BY <3>1, <3>3
        <4>q. QED
          BY <1>1, <1>2, <2>1, <4>1
      <3>4. h \notin T
        BY <1>1, <1>2, <2>1, <2>3
      <3>q. QED
        BY <1>1, <3>1, <3>2, <3>3, <3>4 DEF Sole
    <2>q. QED
      BY <2>2, <2>3
  <1>q. QED
    BY <1>3, <1>4 DEF h

LEMMA SoleNotClear ==
  ASSUME NEW s, NEW T, NEW y \in T, Sole(s, T, y)
  PROVE  ~Clear(s, T)
  BY DEF Sole, Clear

\* Nothing in s but its last element is in T.
LastOnly(s, T) == \A i \in 1 .. Len(s) : s[i] \in T => i = Len(s)

LEMMA LastOnlyChanges ==
  ASSUME NEW S, NEW s \in Seq(S), NEW T
  PROVE  /\ \A x \in S : Clear(s, T) => LastOnly(Append(s, x), T)
         /\ s # <<>> /\ LastOnly(s, T) =>
              LastOnly(Tail(s), T) /\ (Head(s) \in T => Tail(s) = <<>>)
  <1> DEFINE n == Len(s)
  <1>1. ASSUME NEW x \in S, Clear(s, T) PROVE LastOnly(Append(s, x), T)
    <2>1. PICK u : u = Append(s, x)
      OBVIOUS
    <2>2. Len(u) = n + 1 /\ n \in Nat /\ \A i \in 1 .. n : u[i] = s[i]
      BY <2>1
    <2>3. \A i \in 1 .. n + 1 : i \in 1 .. n \/ i = n + 1
      BY <2>2
    <2>q. QED
      BY <1>1, <2>1, <2>2, <2>3 DEF Clear, LastOnly
  <1>2. ASSUME s # <<>>, LastOnly(s, T)
        PROVE  LastOnly(Tail(s), T) /\ (Head(s) \in T => Tail(s) = <<>>)
    <2>1. PICK u : u = Tail(s)
      OBVIOUS
    <2>2. /\ Len(u) = n - 1 /\ n \in Nat \ {0} /\ Head(s) = s[1]
          /\ \A i \in 1 .. n - 1 : u[i] = s[i + 1]
      BY <1>2, <2>1
    <2>3. LastOnly(u, T)
      <3>1. SUFFICES ASSUME NEW i \in 1 .. n - 1, u[i] \in T PROVE i = n - 1
        BY <2>2 DEF LastOnly
      <3>2. s[i + 1] \in T /\ i + 1 \in 1 .. n
        BY <2>2, <3>1
      <3>q. QED
        BY <1>2, <3>2 DEF LastOnly
    <2>4. ASSUME Head(s) \in T PROVE Tail(s) = <<>>
      <3>1. 1 \in 1 .. n
        BY <2>2
      <3>2. n = 1
        BY <1>2, <2>2, <2>4, <3>1 DEF LastOnly
      <3>3. u \in Seq(S) /\ Len(u) = 0
        BY <1>2, <2>1, <2>2, <3>2
      <3>q. QED
        BY <2>1, <3>3, EmptySeq
    <2>q. QED
      BY <2>1, <2>3, <2>4
  <1>q. QED
    BY <1>1, <1>2

-----------------------------------------------------------------------------
(* A client that has left. *)

Forwarding == [what : {"forward"}, to : Forwards]
Removals(c) == [what : {"remove"}, client : {c}]
Served == Forwarding \cup [what : {"remove"}, client : Clients]
Replying == [what : {"reply"}, token : Nat, answers : Seq(Units)]
Byes == [what : {"bye"}, token : Nat, answers : Seq(Units)]

LEMMA TrafficTypes ==
  ASSUME TypeInv
  PROVE  /\ inbox \in Seq(Messages) /\ server \in Seq(Served)
         /\ forward \in Seq(Forwards) /\ Len(forward) <= 1
         /\ waiting \in Seq(Forwards) /\ (forward = <<>> => waiting = <<>>)
         /\ nextToken \in Nat \ {0} /\ timers \subseteq Nat
         /\ owner \subseteq Nat \X Clients
         /\ kind \in [Clients -> {"none", "terminal", "web", "old"}]
         /\ inbound \in [Clients -> Seq(Forwards)]
         /\ slot \in [Clients -> Seq(Slots)]
         /\ \A c \in Clients : Len(slot[c]) <= 1
         /\ host \in [Clients -> Seq(Questions)]
         /\ outbound \in [Clients -> Seq(Outbound)]
  <1>1. nextToken \in Nat
    BY DEF TypeInv, ForwardTypes
  <1>2. Asked \subseteq Forwards /\ 1 .. nextToken \subseteq Nat
    BY <1>1 DEF Asked, Forwards
  <1>3. Requests \subseteq Served
    BY <1>2 DEF Requests, Served, Forwarding
  <1>4. forward \in Seq(Forwards) /\ waiting \in Seq(Forwards)
    BY <1>2 DEF TypeInv, ForwardTypes
  <1>5. server \in Seq(Served)
    BY <1>3 DEF TypeInv, ServerTypes
  <1>6. owner \subseteq Nat \X Clients /\ timers \subseteq Nat
    BY <1>2 DEF TypeInv, ServerTypes, ForwardTypes
  <1>q. QED
    BY <1>4, <1>5, <1>6 DEF TypeInv, InboxTypes, ForwardTypes, ClientTypes

LEMMA OutboundKinds ==
  /\ Outbound = Replying \cup Byes
  /\ \A m \in Replying : m \notin Byes /\ m.what = "reply"
  /\ \A m \in Byes : m \notin Replying /\ m.what = "bye"
  /\ \A m \in Outbound : m.token \in Nat /\ m.answers \in Seq(Units)
  <1>1. Outbound = Replying \cup Byes
    BY DEF Outbound, Replying, Byes
  <1>2. \A m \in Replying : m \notin Byes /\ m.what = "reply"
    BY DEF Replying, Byes
  <1>3. \A m \in Byes : m \notin Replying /\ m.what = "bye"
    BY DEF Replying, Byes
  <1>4. \A m \in Outbound : m.token \in Nat /\ m.answers \in Seq(Units)
    BY DEF Outbound
  <1>q. QED
    BY <1>1, <1>2, <1>3, <1>4

LEMMA ReplyIs ==
  ASSUME NEW t \in Nat, NEW a \in Seq(Units), NEW m, m = Reply(t, a)
  PROVE  /\ m \in Replying /\ m \in Outbound /\ m \in Messages
         /\ m.what = "reply" /\ m.token = t /\ m.answers = a
  BY DEF Reply, Replying, Outbound, Messages

LEMMA ServedKinds ==
  ASSUME NEW m \in Served
  PROVE  /\ m.what = "forward" => m \in Forwarding /\ m.to \in Forwards
         /\ m \in Forwarding => /\ m.what = "forward" /\ m.to \in Forwards
                                /\ m = [what |-> "forward", to |-> m.to]
         /\ m.what = "remove" => /\ m \notin Forwarding /\ m.client \in Clients
                                 /\ m \in Removals(m.client)
         /\ \A c : m \in Removals(c) => m.what = "remove" /\ m.client = c
  BY DEF Served, Forwarding, Removals

LEMMA ServedIs ==
  /\ \A f \in Forwards : \A m : m = [what |-> "forward", to |-> f] =>
       m \in Forwarding /\ m \in Served /\ m.to = f
  /\ \A c \in Clients : \A m : m = [what |-> "remove", client |-> c] =>
       m \in Removals(c) /\ m \in Served /\ m \notin Forwarding
  <1>1. \A f \in Forwards : \A m : m = [what |-> "forward", to |-> f] =>
          m \in Forwarding /\ m \in Served /\ m.to = f
    BY DEF Forwarding, Served
  <1>2. \A c \in Clients : \A m : m = [what |-> "remove", client |-> c] =>
          m \in Removals(c) /\ m \in Served /\ m \notin Forwarding
    BY DEF Forwarding, Served, Removals
  <1>q. QED
    BY <1>1, <1>2

(* The replies in the channel of Screen. *)

Replies(s) == {s[i] : i \in {j \in 1 .. Len(s) : s[j].what = "reply"}}

LEMMA RepliesIn ==
  ASSUME NEW s
  PROVE  /\ \A i \in 1 .. Len(s) : s[i].what = "reply" => s[i] \in Replies(s)
         /\ \A m \in Replies(s) : \E i \in 1 .. Len(s) : s[i] = m /\ m.what = "reply"
  BY DEF Replies

LEMMA RepliesJoined ==
  ASSUME NEW S, NEW s \in Seq(S), NEW t \in Seq(S), NEW u, u = s \o t
  PROVE  Replies(u) \subseteq Replies(s) \cup Replies(t)
  <1>1. /\ Len(u) = Len(s) + Len(t) /\ Len(s) \in Nat /\ Len(t) \in Nat
        /\ \A i \in 1 .. Len(u) : \/ i \in 1 .. Len(s) /\ u[i] = s[i]
                                  \/ i - Len(s) \in 1 .. Len(t) /\ u[i] = t[i - Len(s)]
    OBVIOUS
  <1>2. SUFFICES ASSUME NEW m \in Replies(u) PROVE m \in Replies(s) \cup Replies(t)
    OBVIOUS
  <1>3. PICK i \in 1 .. Len(u) : u[i] = m /\ m.what = "reply"
    BY RepliesIn
  <1>4. CASE i \in 1 .. Len(s) /\ u[i] = s[i]
    BY <1>3, <1>4, RepliesIn
  <1>5. CASE i - Len(s) \in 1 .. Len(t) /\ u[i] = t[i - Len(s)]
    BY <1>3, <1>5, RepliesIn
  <1>q. QED
    BY <1>1, <1>4, <1>5

LEMMA RepliesAppended ==
  ASSUME NEW S, NEW s \in Seq(S), NEW x \in S, NEW u, u = Append(s, x)
  PROVE  /\ Replies(u) \subseteq Replies(s) \cup {x}
         /\ x.what # "reply" => Replies(u) \subseteq Replies(s)
  <1>1. /\ Len(u) = Len(s) + 1 /\ Len(s) \in Nat
        /\ \A i \in 1 .. Len(u) : (i \in 1 .. Len(s) /\ u[i] = s[i]) \/ u[i] = x
    OBVIOUS
  <1>2. SUFFICES ASSUME NEW m \in Replies(u)
                 PROVE m \in Replies(s) \/ (m = x /\ x.what = "reply")
    OBVIOUS
  <1>3. PICK i \in 1 .. Len(u) : u[i] = m /\ m.what = "reply"
    BY RepliesIn
  <1>4. CASE i \in 1 .. Len(s) /\ u[i] = s[i]
    BY <1>3, <1>4, RepliesIn
  <1>q. QED
    BY <1>1, <1>3, <1>4

LEMMA RepliesTaken ==
  ASSUME NEW S, NEW s \in Seq(S), s # <<>>, NEW u, u = Tail(s)
  PROVE  /\ Replies(u) \subseteq Replies(s)
         /\ Head(s).what = "reply" => Head(s) \in Replies(s)
  <1>1. /\ Len(u) = Len(s) - 1 /\ Len(s) \in Nat
        /\ \A i \in 1 .. Len(u) : i + 1 \in 1 .. Len(s) /\ u[i] = s[i + 1]
    OBVIOUS
  <1>2. ASSUME NEW m \in Replies(u) PROVE m \in Replies(s)
    <2>1. PICK i \in 1 .. Len(u) : u[i] = m /\ m.what = "reply"
      BY RepliesIn
    <2>q. QED
      BY <1>1, <2>1, RepliesIn
  <1>3. 1 \in 1 .. Len(s) /\ Head(s) = s[1]
    OBVIOUS
  <1>q. QED
    BY <1>2, <1>3, RepliesIn

\* A client that has left has nothing more to do, says so last, and is removed
\* after all it has sent.
FarewellAt(c) ==
  /\ kind[c] # "terminal" => slot[c] = <<>> /\ host[c] = <<>>
  /\ kind[c] = "none" => inbound[c] = <<>>
  /\ kind[c] # "none" => Clear(outbound[c], Byes)
  /\ LastOnly(outbound[c], Byes)
  /\ \/ Clear(server, Removals(c))
     \/ kind[c] = "none" /\ outbound[c] = <<>>
Farewell == \A c \in Clients : FarewellAt(c)

\* Only what Screen, the server and the clients do with each other matters.
LEMMA FarewellStays ==
  ASSUME NEW c \in Clients, FarewellAt(c),
         kind'[c] = kind[c], inbound'[c] = inbound[c], slot'[c] = slot[c],
         host'[c] = host[c], outbound'[c] = outbound[c],
         Clear(server, Removals(c)) => Clear(server', Removals(c))
  PROVE  FarewellAt(c)'
  <1>1. Removals(c)' = Removals(c) /\ Byes' = Byes
    BY DEF Removals, Byes
  <1>q. QED
    BY <1>1 DEF FarewellAt, Clear, LastOnly

(* What the steps of a client do, seen from that client. *)

Same(c) ==
  /\ kind'[c] = kind[c] /\ inbound'[c] = inbound[c] /\ slot'[c] = slot[c]
  /\ host'[c] = host[c] /\ outbound'[c] = outbound[c]
OthersSame(c) == \A d \in Clients \ {c} : Same(d)
Barred(f, b) == [token |-> f.token, query |-> f.query, barrier |-> b]
Answered(c, t, a) == outbound'[c] = Append(outbound[c], Reply(t, a))

Opens(c, f) ==
  /\ f = Head(inbound[c]) /\ kind'[c] = kind[c] /\ inbound'[c] = Tail(inbound[c])
  /\ \/ /\ kind[c] = "terminal" /\ slot'[c] = <<[token |-> f.token, answers |-> <<>>]>>
        /\ host'[c] = host[c] \o <<Barred(f, FALSE), Barred(f, TRUE)>>
        /\ outbound'[c] = outbound[c]
     \/ /\ kind[c] = "web" /\ slot'[c] = slot[c] /\ host'[c] = host[c]
        /\ Answered(c, f.token, <<>>)
     \/ /\ kind[c] = "old" /\ slot'[c] = slot[c] /\ host'[c] = host[c]
        /\ outbound'[c] = outbound[c]

LEMMA OpenForwardIs ==
  ASSUME TypeInv, NEW c \in Clients, OpenForward(c)
  PROVE  /\ inbound[c] # <<>> /\ OthersSame(c)
         /\ \E f \in Forwards : Opens(c, f)
  <1>1. PICK f : f = Head(inbound[c])
    OBVIOUS
  <1>2. f \in Forwards /\ inbound[c] # <<>>
    BY <1>1 DEF OpenForward, TypeInv, ClientTypes
  <1>3. /\ inbound' = [inbound EXCEPT ![c] = Tail(@)] /\ kind' = kind
        /\ \/ /\ kind[c] = "terminal"
              /\ slot' = [slot EXCEPT ![c] = <<[token |-> f.token, answers |-> <<>>]>>]
              /\ host' = [host EXCEPT ![c] = @ \o <<Barred(f, FALSE), Barred(f, TRUE)>>]
              /\ outbound' = outbound
           \/ /\ kind[c] = "web"
              /\ outbound' = [outbound EXCEPT ![c] = Append(@, Reply(f.token, <<>>))]
              /\ slot' = slot /\ host' = host
           \/ kind[c] = "old" /\ slot' = slot /\ host' = host /\ outbound' = outbound
    BY <1>1, Zenon DEF OpenForward, Send, Reply, Barred
  <1>4. /\ c \in DOMAIN inbound /\ c \in DOMAIN slot /\ c \in DOMAIN host
        /\ c \in DOMAIN outbound
    BY DEF TypeInv, ClientTypes
  <1>5. Opens(c, f)
    <2>1. inbound'[c] = Tail(inbound[c]) /\ kind'[c] = kind[c]
      BY <1>3, <1>4
    <2>2. CASE /\ kind[c] = "terminal"
               /\ slot' = [slot EXCEPT ![c] = <<[token |-> f.token, answers |-> <<>>]>>]
               /\ host' = [host EXCEPT ![c] = @ \o <<Barred(f, FALSE), Barred(f, TRUE)>>]
               /\ outbound' = outbound
      BY <1>1, <1>4, <2>1, <2>2, Zenon DEF Opens
    <2>3. CASE /\ kind[c] = "web"
               /\ outbound' = [outbound EXCEPT ![c] = Append(@, Reply(f.token, <<>>))]
               /\ slot' = slot /\ host' = host
      BY <1>1, <1>4, <2>1, <2>3, Zenon DEF Opens, Answered
    <2>4. CASE kind[c] = "old" /\ slot' = slot /\ host' = host /\ outbound' = outbound
      BY <1>1, <2>1, <2>4, Zenon DEF Opens
    <2>q. QED
      BY <1>3, <2>2, <2>3, <2>4
  <1>6. OthersSame(c)
    BY <1>3, Zenon DEF OthersSame, Same, TypeInv, ClientTypes
  <1>q. QED
    BY <1>2, <1>5, <1>6

Hears(c, h) ==
  /\ h = Head(host[c]) /\ host'[c] = Tail(host[c])
  /\ kind'[c] = kind[c] /\ inbound'[c] = inbound[c]
  /\ \/ slot'[c] = slot[c] /\ outbound'[c] = outbound[c]
     \/ /\ ~h.barrier /\ outbound'[c] = outbound[c]
        /\ \E t \in Nat, a \in Seq(Units) :
             /\ slot[c] = <<[token |-> t, answers |-> a]>>
             /\ slot'[c] = <<[token |-> t, answers |-> Append(a, h.query)]>>
     \/ /\ h.barrier /\ slot'[c] = <<>>
        /\ \E t \in Nat, a \in Seq(Units) :
             slot[c] = <<[token |-> t, answers |-> a]>> /\ Answered(c, t, a)

LEMMA SlotIs ==
  ASSUME TypeInv, NEW c \in Clients, slot[c] # <<>>
  PROVE  \E t \in Nat, a \in Seq(Units) : /\ slot[c] = <<[token |-> t, answers |-> a]>>
                                          /\ slot[c][1].token = t /\ slot[c][1].answers = a
  <1>1. slot[c] \in Seq(Slots) /\ Len(slot[c]) <= 1
    BY DEF TypeInv, ClientTypes
  <1>2. PICK s : s = slot[c]
    OBVIOUS
  <1>3. s[1] \in Slots /\ s = <<s[1]>>
    BY <1>1, <1>2
  <1>4. PICK t \in Nat, a \in Seq(Units) : s[1] = [token |-> t, answers |-> a]
    BY <1>3 DEF Slots
  <1>q. QED
    BY <1>2, <1>3, <1>4

LEMMA HostTerminalIs ==
  ASSUME TypeInv, NEW c \in Clients, HostTerminal(c)
  PROVE  /\ host[c] # <<>> /\ OthersSame(c)
         /\ \E h \in Questions : Hears(c, h)
  <1>1. PICK h : h = Head(host[c])
    OBVIOUS
  <1>2. h \in Questions /\ host[c] # <<>>
    BY <1>1 DEF HostTerminal, TypeInv, ClientTypes
  <1>3. /\ host' = [host EXCEPT ![c] = Tail(@)] /\ kind' = kind /\ inbound' = inbound
        /\ \/ slot' = slot /\ outbound' = outbound
           \/ /\ slot[c] # <<>> /\ ~h.barrier
              /\ slot' = [slot EXCEPT ![c][1].answers = Append(@, h.query)]
              /\ outbound' = outbound
           \/ /\ slot[c] # <<>> /\ h.barrier
              /\ slot' = [slot EXCEPT ![c] = <<>>]
              /\ outbound' = [outbound EXCEPT
                   ![c] = Append(@, Reply(slot[c][1].token, slot[c][1].answers))]
    BY <1>1, Zenon DEF HostTerminal, Feed, Send, Reply
  <1>4. c \in DOMAIN slot /\ c \in DOMAIN host /\ c \in DOMAIN outbound
    BY DEF TypeInv, ClientTypes
  <1>5. Hears(c, h)
    <2>1. /\ host'[c] = Tail(host[c]) /\ kind'[c] = kind[c] /\ inbound'[c] = inbound[c]
      BY <1>3, <1>4
    <2>2. CASE slot' = slot /\ outbound' = outbound
      BY <1>1, <2>1, <2>2, Zenon DEF Hears
    <2>3. CASE /\ slot[c] # <<>> /\ ~h.barrier
               /\ slot' = [slot EXCEPT ![c][1].answers = Append(@, h.query)]
               /\ outbound' = outbound
      <3>1. PICK t \in Nat, a \in Seq(Units) : slot[c] = <<[token |-> t, answers |-> a]>>
        BY <2>3, SlotIs, Zenon
      <3>2. slot'[c] = [slot[c] EXCEPT ![1].answers = Append(@, h.query)]
        BY <1>4, <2>3
      <3>3. PICK s : s = <<[token |-> t, answers |-> a]>>
        OBVIOUS
      <3>4. PICK s2 : s2 = [s EXCEPT ![1].answers = Append(@, h.query)]
        OBVIOUS
      <3>5. s2 = <<[token |-> t, answers |-> Append(a, h.query)]>>
        <4>1. /\ DOMAIN s = 1 .. 1 /\ s[1] = [token |-> t, answers |-> a]
              /\ s2 = [s EXCEPT ![1] = [s[1] EXCEPT !.answers = Append(s[1].answers, h.query)]]
          BY <3>3, <3>4
        <4>2. [s[1] EXCEPT !.answers = Append(s[1].answers, h.query)]
                = [token |-> t, answers |-> Append(a, h.query)]
          <5>1. PICK x, q : x = s[1] /\ q = h.query
            OBVIOUS
          <5>2. x = [token |-> t, answers |-> a]
            BY <4>1, <5>1
          <5>3. [x EXCEPT !.answers = Append(x.answers, q)]
                  = [token |-> t, answers |-> Append(a, q)]
            <6>1. x.answers = a
              BY <5>2
            <6>2. PICK b : b = Append(a, q)
              OBVIOUS
            <6>3. [x EXCEPT !.answers = b] = [token |-> t, answers |-> b]
              BY <5>2
            <6>q. QED
              BY <6>1, <6>2, <6>3
          <5>q. QED
            BY <5>1, <5>3, Zenon
        <4>3. PICK r : r = [token |-> t, answers |-> Append(a, h.query)]
          OBVIOUS
        <4>4. s = <<s[1]>> /\ s2 = [s EXCEPT ![1] = r]
          BY <3>3, <4>1, <4>2, <4>3
        <4>5. s2 = <<r>>
          BY <4>4
        <4>q. QED
          BY <4>3, <4>5
      <3>6. slot'[c] = <<[token |-> t, answers |-> Append(a, h.query)]>>
        BY <3>1, <3>2, <3>3, <3>4, <3>5, Zenon
      <3>q. QED
        BY <1>1, <2>1, <2>3, <3>1, <3>6, Zenon DEF Hears
    <2>4. CASE /\ slot[c] # <<>> /\ h.barrier
               /\ slot' = [slot EXCEPT ![c] = <<>>]
               /\ outbound' = [outbound EXCEPT
                    ![c] = Append(@, Reply(slot[c][1].token, slot[c][1].answers))]
      <3>1. PICK t \in Nat, a \in Seq(Units) :
              /\ slot[c] = <<[token |-> t, answers |-> a]>>
              /\ slot[c][1].token = t /\ slot[c][1].answers = a
        BY <2>4, SlotIs, Zenon
      <3>2. slot'[c] = <<>> /\ outbound'[c] = Append(outbound[c], Reply(t, a))
        BY <1>4, <2>4, <3>1, Zenon
      <3>q. QED
        BY <1>1, <2>1, <2>4, <3>1, <3>2, Zenon DEF Hears, Answered
    <2>q. QED
      BY <1>3, <2>2, <2>3, <2>4
  <1>6. OthersSame(c)
    BY <1>3, Zenon DEF OthersSame, Same, TypeInv, ClientTypes
  <1>q. QED
    BY <1>2, <1>5, <1>6

\* The timer of a slot; not too early when there is no surprise.
Closes(c, t, a) ==
  /\ slot[c] = <<[token |-> t, answers |-> a]>> /\ slot'[c] = <<>> /\ Answered(c, t, a)
  /\ kind'[c] = kind[c] /\ inbound'[c] = inbound[c] /\ host'[c] = host[c]
  /\ \/ surprised' = TRUE
     \/ \A i \in 1 .. Len(host[c]) : host[c][i].token # t

LEMMA ClientTimerIs ==
  ASSUME TypeInv, NEW c \in Clients, ClientTimer(c)
  PROVE  /\ OthersSame(c)
         /\ \E t \in Nat, a \in Seq(Units) : Closes(c, t, a)
         /\ surprised' = surprised \/ surprised' = TRUE
  <1>1. /\ slot[c] # <<>> /\ slot' = [slot EXCEPT ![c] = <<>>]
        /\ outbound' = [outbound EXCEPT
             ![c] = Append(@, Reply(slot[c][1].token, slot[c][1].answers))]
        /\ kind' = kind /\ inbound' = inbound /\ host' = host
    BY Zenon DEF ClientTimer, Send, Reply, clientVars
  <1>2. \/ surprised' = TRUE
        \/ /\ surprised' = surprised
           /\ ~\E i \in 1 .. Len(host[c]) : host[c][i].token = slot[c][1].token
    BY Zenon DEF ClientTimer, Surprise
  <1>3. PICK t \in Nat, a \in Seq(Units) :
          /\ slot[c] = <<[token |-> t, answers |-> a]>>
          /\ slot[c][1].token = t /\ slot[c][1].answers = a
    BY <1>1, SlotIs, Zenon
  <1>4. slot'[c] = <<>> /\ outbound'[c] = Append(outbound[c], Reply(t, a))
    BY <1>1, <1>3, Zenon DEF TypeInv, ClientTypes
  <1>5. Closes(c, t, a)
    BY <1>1, <1>2, <1>3, <1>4, Zenon DEF Closes, Answered
  <1>6. OthersSame(c)
    BY <1>1, Zenon DEF OthersSame, Same, TypeInv, ClientTypes
  <1>q. QED
    BY <1>2, <1>5, <1>6, Zenon

Leaves(c) ==
  /\ kind[c] # "none" /\ kind'[c] = "none" /\ inbound'[c] = <<>> /\ slot'[c] = <<>>
  /\ host'[c] = <<>>
  /\ \E m \in Byes : outbound'[c] = Append(outbound[c], m)

LEMMA ClientLeavesIs ==
  ASSUME TypeInv, NEW c \in Clients, ClientLeaves(c)
  PROVE  OthersSame(c) /\ Leaves(c)
  <1> DEFINE m == [what |-> "bye", token |-> 0, answers |-> <<>>]
  <1>1. /\ kind[c] # "none" /\ kind' = [kind EXCEPT ![c] = "none"]
        /\ inbound' = [inbound EXCEPT ![c] = <<>>]
        /\ slot' = [slot EXCEPT ![c] = <<>>] /\ host' = [host EXCEPT ![c] = <<>>]
        /\ outbound' = [outbound EXCEPT ![c] = Append(@, m)]
    BY Zenon DEF ClientLeaves, Send
  <1>2. m \in Byes
    BY DEF Byes
  <1> HIDE DEF m
  <1>3. /\ kind'[c] = "none" /\ inbound'[c] = <<>> /\ slot'[c] = <<>>
        /\ host'[c] = <<>> /\ outbound'[c] = Append(outbound[c], m)
    BY <1>1, Zenon DEF TypeInv, ClientTypes
  <1>4. OthersSame(c)
    BY <1>1, Zenon DEF OthersSame, Same, TypeInv, ClientTypes
  <1>q. QED
    BY <1>1, <1>2, <1>3, <1>4, Zenon DEF Leaves

\* The route thread passes a reply on to Screen, or the end of the connection
\* to the main loop.
Routes(c, m) ==
  /\ m = Head(outbound[c]) /\ outbound'[c] = Tail(outbound[c])
  /\ kind'[c] = kind[c] /\ inbound'[c] = inbound[c] /\ slot'[c] = slot[c]
  /\ host'[c] = host[c]
  /\ \/ /\ m \in Replying /\ m = Reply(m.token, m.answers) /\ server' = server
        /\ owner' \subseteq owner /\ inbox' = Append(inbox, m)
     \/ /\ m \in Byes /\ owner' = owner /\ inbox' = inbox
        /\ server' = Append(server, [what |-> "remove", client |-> c])

LEMMA RouteIs ==
  ASSUME TypeInv, NEW c \in Clients, Route(c)
  PROVE  /\ outbound[c] # <<>> /\ OthersSame(c)
         /\ \E m \in Outbound : Routes(c, m)
  <1>1. PICK m : m = Head(outbound[c])
    OBVIOUS
  <1>2. /\ outbound[c] # <<>> /\ outbound' = [outbound EXCEPT ![c] = Tail(@)]
        /\ kind' = kind /\ inbound' = inbound /\ slot' = slot /\ host' = host
        /\ \/ /\ m.what = "reply" /\ owner' = owner \ ({m.token} \X Clients)
              /\ inbox' = Append(inbox, Reply(m.token, m.answers))
              /\ server' = server
           \/ /\ m.what = "bye" /\ owner' = owner /\ inbox' = inbox
              /\ server' = Append(server, [what |-> "remove", client |-> c])
    BY <1>1, Zenon DEF Route
  <1>3. m \in Outbound
    BY <1>1, <1>2 DEF TypeInv, ClientTypes
  <1>4. /\ outbound'[c] = Tail(outbound[c]) /\ kind'[c] = kind[c]
        /\ inbound'[c] = inbound[c] /\ slot'[c] = slot[c] /\ host'[c] = host[c]
    BY <1>2, Zenon DEF TypeInv, ClientTypes
  <1>5. CASE /\ m.what = "reply" /\ owner' = owner \ ({m.token} \X Clients)
             /\ inbox' = Append(inbox, Reply(m.token, m.answers)) /\ server' = server
    <2>1. m \in Replying /\ m = Reply(m.token, m.answers)
      BY <1>3, <1>5 DEF Outbound, Replying, Reply
    <2>2. owner' \subseteq owner
      BY ONLY <1>5
    <2>3. Routes(c, m)
      BY <1>1, <1>4, <1>5, <2>1, <2>2, Zenon DEF Routes
    <2>q. QED
      BY <1>2, <1>3, <2>3, Zenon DEF OthersSame, Same, TypeInv, ClientTypes
  <1>6. CASE /\ m.what = "bye" /\ owner' = owner /\ inbox' = inbox
             /\ server' = Append(server, [what |-> "remove", client |-> c])
    <2>1. m \in Byes
      BY <1>3, <1>6 DEF Outbound, Byes
    <2>2. Routes(c, m)
      BY <1>1, <1>4, <1>6, <2>1, Zenon DEF Routes
    <2>q. QED
      BY <1>2, <1>3, <2>2, Zenon DEF OthersSame, Same, TypeInv, ClientTypes
  <1>q. QED
    BY <1>2, <1>5, <1>6

-----------------------------------------------------------------------------
(* What the steps of Screen do with the panes: one parses, or none does. *)

LEMMA ParsesFrom ==
  ASSUME TypeInv, KeptInv, NEW p \in Panes, p \in open, NEW items, items \in Items,
         NEW rest, rest \in Seq(Messages),
         Process(p, items, p \in paused, buffered[p], <<>>, rest)
  PROVE  \E b \in BOOLEAN : (b <=> p \in paused) /\ Call(p, items, b, buffered[p], <<>>, rest)
  <1>1. PICK b \in BOOLEAN : b <=> p \in paused
    OBVIOUS
  <1>2. b = (p \in paused)
    BY <1>1
  <1>3. b \/ buffered[p] = <<>>
    BY <1>1 DEF KeptInv, KeptAt
  <1>4. buffered[p] \in Items
    BY WholeTypes
  <1>5. Process(p, items, b, buffered[p], <<>>, rest)
    BY <1>2, Zenon
  <1>q. QED
    BY <1>1, <1>3, <1>4, <1>5, Zenon DEF Call

\* A step of p that parses what it is given, or buffers it.
Parses(p, rest) ==
  /\ p \in open
  /\ \E items \in Items, kept \in Items, b \in BOOLEAN :
       (b <=> p \in paused) /\ Call(p, items, b, kept, <<>>, rest)

LEMMA ParsesIs ==
  ASSUME TypeInv, KeptInv, NEW p \in Panes, p \in open, NEW items, items \in Items,
         NEW rest, rest \in Seq(Messages),
         Process(p, items, p \in paused, buffered[p], <<>>, rest)
  PROVE  Parses(p, rest)
  <1>1. PICK b \in BOOLEAN : (b <=> p \in paused) /\ Call(p, items, b, buffered[p], <<>>, rest)
    BY ParsesFrom, Zenon
  <1>2. buffered[p] \in Items
    BY WholeTypes
  <1>q. QED
    BY <1>1, <1>2, Zenon DEF Parses

LEMMA PtyBytesIs ==
  ASSUME TypeInv, KeptInv, HandlePtyBytes
  PROVE  /\ inbox # <<>> /\ Head(inbox).what = "bytes"
         /\ UNCHANGED <<queueVars, printed, script, open, forwardVars, serverVars,
                        clientVars, history>>
         /\ \/ inbox' = Tail(inbox) /\ UNCHANGED <<shown, paused, writer>>
            \/ \E p \in Panes : Parses(p, Tail(inbox))
  <1>1. /\ inbox # <<>> /\ Head(inbox).what = "bytes"
        /\ UNCHANGED <<queueVars, printed, script, open, forwardVars, serverVars,
                       clientVars, history>>
    BY DEF HandlePtyBytes
  <1>2. Tail(inbox) \in Seq(Messages) /\ Head(inbox) \in Messages
    BY <1>1, InboxHead
  <1>3. PICK p \in Panes, items \in Items : p = Head(inbox).pane /\ items = Head(inbox).items
    BY <1>1, <1>2 DEF Messages
  <1>4. PICK chunks : chunks = Append(held[p], items)
    OBVIOUS
  <1>5. chunks \in Seq(Items) /\ Len(chunks) \in Nat
    BY <1>4, WholeTypes
  <1>6. FlattenSeq(chunks) \in Items
    BY <1>5, FlattenType DEF Items
  <1>7. p \notin open \/ (p \in open \cap scrolled /\ Len(chunks) < MaxHeld)
        \/ (p \in open \cap scrolled /\ Len(chunks) >= MaxHeld) \/ p \in open \ scrolled
    BY <1>5, HeldAssumption
  <1>8. \/ inbox' = Tail(inbox) /\ UNCHANGED <<shown, paused, writer>>
        \/ /\ p \in open
           /\ Process(p, FlattenSeq(chunks), p \in paused, buffered[p], <<>>, Tail(inbox))
        \/ /\ p \in open
           /\ Process(p, items, p \in paused, buffered[p], <<>>, Tail(inbox))
    BY <1>3, <1>4, <1>7, Zenon DEF HandlePtyBytes
  <1>9. (inbox' = Tail(inbox) /\ UNCHANGED <<shown, paused, writer>>) \/ Parses(p, Tail(inbox))
    BY <1>2, <1>6, <1>8, ParsesIs, Zenon
  <1>q. QED
    BY <1>1, <1>9

LEMMA ScrollToBottomIs ==
  ASSUME TypeInv, KeptInv, NEW p \in Panes, ScrollToBottom(p)
  PROVE  /\ Parses(p, inbox)
         /\ UNCHANGED <<queueVars, printed, script, open, forwardVars, serverVars,
                        clientVars, surprised, disturbed>>
  <1>1. /\ p \in open /\ Process(p, FlattenSeq(held[p]), p \in paused, buffered[p], <<>>, inbox)
        /\ UNCHANGED <<queueVars, printed, script, open, forwardVars, serverVars,
                       clientVars, surprised, disturbed>>
    BY DEF ScrollToBottom, Command
  <1>2. FlattenSeq(held[p]) \in Items /\ inbox \in Seq(Messages)
    BY WholeTypes DEF TypeInv, InboxTypes
  <1>3. Parses(p, inbox)
    BY <1>1, <1>2, ParsesIs, Zenon
  <1>q. QED
    BY <1>1, <1>3

\* A pane goes on, or has gone and only its answer is written.
Resumes(p, answers, rest) ==
  \/ p \in open /\ Call(p, buffered[p], FALSE, <<>>, answers, rest)
  \/ /\ p \notin open /\ inbox' = rest /\ UNCHANGED <<shown, paused>>
     /\ writer' = writer \o WriteTo(p, answers)

LEMMA ResumeIs ==
  ASSUME TypeInv, NEW p \in Panes, NEW answers, NEW rest, rest \in Seq(Messages),
         Resume(p, answers, rest)
  PROVE  Resumes(p, answers, rest)
  <1>1. CASE p \in open
    <2>1. Process(p, buffered[p], FALSE, <<>>, answers, rest)
      BY <1>1, Zenon DEF Resume
    <2>2. buffered[p] \in Items /\ <<>> \in Items /\ FALSE \in BOOLEAN
      BY WholeTypes, ItemsEmpty
    <2>q. QED
      BY <1>1, <2>1, <2>2, Zenon DEF Call, Resumes
  <1>2. CASE p \notin open
    BY <1>2, Zenon DEF Resume, Resumes
  <1>q. QED
    BY <1>1, <1>2

LEMMA ColorModeIs ==
  ASSUME TypeInv, AnswerColorMode
  PROVE  /\ inbox # <<>> /\ Head(inbox).what = "query"
         /\ UNCHANGED <<queueVars, printed, script, open, forwardVars, serverVars,
                        clientVars, history>>
         /\ \E q \in Units :
              /\ q = Head(inbox).query /\ Head(inbox).mode
              /\ \/ Resumes(q.pane, <<q>>, Tail(inbox)) \/ Resumes(q.pane, <<>>, Tail(inbox))
                 \/ /\ q.pane \notin open \cap paused
                    /\ inbox' = Tail(inbox) /\ UNCHANGED <<shown, paused, writer>>
  <1>1. /\ inbox # <<>> /\ Head(inbox).what = "query" /\ Head(inbox).mode
        /\ UNCHANGED <<queueVars, printed, script, open, forwardVars, serverVars,
                       clientVars, history>>
    BY DEF AnswerColorMode
  <1>2. Tail(inbox) \in Seq(Messages) /\ Head(inbox) \in Messages
    BY <1>1, InboxHead
  <1>3. PICK q : q = Head(inbox).query
    OBVIOUS
  <1>4. q \in Units /\ q.pane \in Panes
    BY <1>1, <1>2, <1>3 DEF Messages, Units
  <1>5. \/ Resume(q.pane, <<q>>, Tail(inbox)) \/ Resume(q.pane, <<>>, Tail(inbox))
        \/ /\ q.pane \notin open \cap paused
           /\ inbox' = Tail(inbox) /\ UNCHANGED <<shown, paused, writer>>
    BY <1>3, Zenon DEF AnswerColorMode
  <1>6. PICK p : p = q.pane
    OBVIOUS
  <1>7. \/ Resumes(p, <<q>>, Tail(inbox)) \/ Resumes(p, <<>>, Tail(inbox))
        \/ /\ p \notin open \cap paused
           /\ inbox' = Tail(inbox) /\ UNCHANGED <<shown, paused, writer>>
    BY <1>2, <1>4, <1>5, <1>6, ResumeIs, Zenon
  <1>q. QED
    BY <1>1, <1>3, <1>4, <1>6, <1>7, Zenon

\* A reply that is not the one that is waited for is dropped, another one lets
\* the pane go on, and the next query that waits is sent.
Replied(f, answers) ==
  /\ forward = <<f>>
  /\ Resumes(f.query.pane, answers, Tail(inbox))
  /\ \/ forward' = <<>> /\ waiting = <<>> /\ UNCHANGED <<waiting, server, timers>>
     \/ \E g \in Forwards : /\ waiting # <<>> /\ g = Head(waiting) /\ Dispatch(g)
                            /\ waiting' = Tail(waiting)

LEMMA ForwardIs ==
  ASSUME TypeInv, forward # <<>>
  PROVE  \E f \in Forwards : forward = <<f>> /\ forward[1] = f
  <1>1. forward \in Seq(Forwards) /\ Len(forward) <= 1
    BY TrafficTypes
  <1>2. PICK s : s = forward
    OBVIOUS
  <1>3. s \in Seq(Forwards) /\ Len(s) <= 1 /\ s # <<>>
    BY <1>1, <1>2
  <1>4. Len(s) = 1
    <2>1. Len(s) \in Nat /\ Len(s) # 0
      BY <1>3, EmptySeq
    <2>2. PICK n \in Nat : n = Len(s)
      BY <2>1
    <2>3. n <= 1 /\ n # 0
      BY <1>3, <2>1, <2>2
    <2>q. QED
      BY <2>2, <2>3
  <1>5. s[1] \in Forwards /\ s = <<s[1]>>
    BY <1>3, <1>4
  <1>q. QED
    BY <1>2, <1>5

LEMMA ForwardedReplyIs ==
  ASSUME TypeInv, HandleForwardedReply
  PROVE  /\ inbox # <<>> /\ Head(inbox).what = "reply"
         /\ UNCHANGED <<queueVars, printed, script, open, nextToken, clients, owner,
                        clientVars, history>>
         /\ \/ /\ \A f \in Forwards : forward = <<f>> => f.token # Head(inbox).token
               /\ inbox' = Tail(inbox)
               /\ UNCHANGED <<shown, paused, writer, forward, waiting, server, timers>>
            \/ \E f \in Forwards, answers \in Seq(Units) :
                 /\ f.token = Head(inbox).token
                 /\ answers = Head(inbox).answers \/ answers = <<>> \/ answers = <<f.query>>
                 /\ Replied(f, answers)
  <1>1. /\ inbox # <<>> /\ Head(inbox).what = "reply"
        /\ UNCHANGED <<queueVars, printed, script, open, nextToken, clients, owner,
                       clientVars, history>>
    BY DEF HandleForwardedReply
  <1>2. Tail(inbox) \in Seq(Messages) /\ Head(inbox) \in Messages
    BY <1>1, InboxHead
  <1>3. Head(inbox).answers \in Seq(Units)
    BY <1>1, <1>2 DEF Messages
  <1>4. PICK reply : reply = Head(inbox)
    OBVIOUS
  <1>5. CASE IsStale(reply.token)
    <2>1. /\ inbox' = Tail(inbox)
          /\ UNCHANGED <<shown, paused, writer, forward, waiting, server, timers>>
      BY <1>4, <1>5, Zenon DEF HandleForwardedReply
    <2>2. ASSUME NEW f \in Forwards, forward = <<f>> PROVE f.token # reply.token
      <3>1. forward # <<>> /\ forward[1] = f
        BY <2>2
      <3>q. QED
        BY <1>5, <3>1 DEF IsStale
    <2>q. QED
      BY <1>1, <1>4, <2>1, <2>2
  <1>6. CASE ~IsStale(reply.token)
    <2>1. forward # <<>>
      BY <1>6 DEF IsStale
    <2>2. PICK f \in Forwards : forward = <<f>> /\ forward[1] = f
      BY <2>1, ForwardIs
    <2>3. f.token = reply.token /\ f.query \in Units /\ f.query.pane \in Panes
      BY <1>6, <2>1, <2>2 DEF IsStale, Forwards, Units
    <2>4. /\ \E answers \in IF reply.answers = <<>> THEN {<<>>, <<f.query>>} ELSE {reply.answers} :
               Resume(f.query.pane, answers, Tail(inbox))
          /\ IF waiting = <<>>
             THEN forward' = <<>> /\ UNCHANGED <<waiting, server, timers>>
             ELSE Dispatch(Head(waiting)) /\ waiting' = Tail(waiting)
      BY <1>4, <1>6, <2>2, Zenon DEF HandleForwardedReply
    <2>5. PICK answers \in {reply.answers, <<>>, <<f.query>>} :
            Resume(f.query.pane, answers, Tail(inbox))
      BY <2>4
    <2>6. answers \in Seq(Units)
      <3>1. <<>> \in Seq(Units) /\ \A q \in Units : <<q>> \in Seq(Units)
        OBVIOUS
      <3>q. QED
        BY <1>3, <1>4, <2>3, <2>5, <3>1, Zenon
    <2>7. PICK p : p = f.query.pane
      OBVIOUS
    <2>8. Resumes(p, answers, Tail(inbox))
      BY <1>2, <2>3, <2>5, <2>7, ResumeIs, Zenon
    <2>9. \/ forward' = <<>> /\ waiting = <<>> /\ UNCHANGED <<waiting, server, timers>>
          \/ \E g \in Forwards : /\ waiting # <<>> /\ g = Head(waiting) /\ Dispatch(g)
                                 /\ waiting' = Tail(waiting)
      <3>1. CASE waiting = <<>>
        BY <2>4, <3>1
      <3>2. CASE waiting # <<>>
        <4>1. PICK g : g = Head(waiting)
          OBVIOUS
        <4>2. waiting \in Seq(Forwards)
          BY TrafficTypes
        <4>3. g \in Forwards
          BY <3>2, <4>1, <4>2
        <4>4. Dispatch(g) /\ waiting' = Tail(waiting)
          BY <2>4, <3>2, <4>1, Zenon
        <4>q. QED
          BY <3>2, <4>1, <4>3, <4>4, Zenon
      <3>q. QED
        BY <3>1, <3>2
    <2>10. Replied(f, answers)
      BY <2>2, <2>7, <2>8, <2>9, Zenon DEF Replied
    <2>q. QED
      BY <1>1, <1>4, <2>3, <2>5, <2>6, <2>10
  <1>q. QED
    BY <1>5, <1>6

LEMMA HostQueryIs ==
  ASSUME TypeInv, ForwardHostQuery
  PROVE  /\ inbox # <<>> /\ Head(inbox).what = "query" /\ inbox' = Tail(inbox)
         /\ UNCHANGED <<writerVars, paneVars, clients, owner, clientVars, history>>
         /\ nextToken' = nextToken + 1
         /\ \E f \in Forwards :
              /\ f.token = nextToken /\ f.query = Head(inbox).query
              /\ \/ /\ forward # <<>> /\ waiting' = Append(waiting, f)
                    /\ UNCHANGED <<forward, server, timers>>
                 \/ forward = <<>> /\ Dispatch(f) /\ waiting' = waiting
  <1>1. /\ inbox # <<>> /\ Head(inbox).what = "query" /\ inbox' = Tail(inbox)
        /\ UNCHANGED <<writerVars, paneVars, clients, owner, clientVars, history>>
        /\ nextToken' = nextToken + 1
    BY DEF ForwardHostQuery
  <1>2. Head(inbox) \in Messages
    BY <1>1, InboxHead
  <1>3. PICK f : f = [token |-> nextToken, query |-> Head(inbox).query]
    OBVIOUS
  <1>4. f \in Forwards /\ f.token = nextToken /\ f.query = Head(inbox).query
    BY <1>1, <1>2, <1>3, TrafficTypes DEF Messages, Forwards
  <1>5. \/ /\ forward # <<>> /\ waiting' = Append(waiting, f)
           /\ UNCHANGED <<forward, server, timers>>
        \/ forward = <<>> /\ Dispatch(f) /\ waiting' = waiting
    BY <1>3, Zenon DEF ForwardHostQuery
  <1>q. QED
    BY <1>1, <1>4, <1>5, Zenon

\* What the steps of the main loop and the server's timer do.
Relays(f) ==
  \/ \E c \in Clients :
       /\ owner' = owner \cup {<<f.token, c>>} /\ inbox' = inbox
       /\ OthersSame(c) /\ kind'[c] = kind[c] /\ slot'[c] = slot[c] /\ host'[c] = host[c]
       /\ outbound'[c] = outbound[c]
       /\ \/ kind[c] = "none" /\ inbound'[c] = inbound[c]
          \/ kind[c] # "none" /\ inbound'[c] = Append(inbound[c], f)
  \/ /\ inbox' = Append(inbox, Reply(f.token, <<>>))
     /\ UNCHANGED <<owner, clientVars>>

LEMMA ToHostIs ==
  ASSUME TypeInv, ForwardQueryToHost
  PROVE  /\ server # <<>> /\ server' = Tail(server)
         /\ UNCHANGED <<writerVars, paneVars, forwardVars, history>>
         /\ \E f \in Forwards : Head(server) = [what |-> "forward", to |-> f] /\ Relays(f)
  <1>1. /\ server # <<>> /\ Head(server).what = "forward" /\ server' = Tail(server)
        /\ UNCHANGED <<writerVars, paneVars, forwardVars, history>>
    BY DEF ForwardQueryToHost
  <1>2. Head(server) \in Served
    BY <1>1, TrafficTypes
  <1>3. PICK f : f = Head(server).to
    OBVIOUS
  <1>4. f \in Forwards /\ Head(server) = [what |-> "forward", to |-> f]
    BY <1>1, <1>2, <1>3, ServedKinds
  <1>5. /\ kind' = kind /\ slot' = slot /\ host' = host /\ outbound' = outbound
        /\ \/ \E c \in clients :
                /\ owner' = owner \cup {<<f.token, c>>}
                /\ inbound' = IF kind[c] = "none" THEN inbound
                              ELSE [inbound EXCEPT ![c] = Append(@, f)]
                /\ inbox' = inbox
           \/ /\ inbox' = Append(inbox, Reply(f.token, <<>>))
              /\ owner' = owner /\ inbound' = inbound
    BY <1>3, Zenon DEF ForwardQueryToHost
  <1>6. Relays(f)
    <2>1. ASSUME NEW c \in clients, owner' = owner \cup {<<f.token, c>>},
                 inbound' = IF kind[c] = "none" THEN inbound
                            ELSE [inbound EXCEPT ![c] = Append(@, f)],
                 inbox' = inbox
          PROVE  Relays(f)
      <3>1. c \in Clients /\ c \in DOMAIN inbound
        BY DEF TypeInv, ServerTypes, ClientTypes
      <3>2. \/ kind[c] = "none" /\ inbound'[c] = inbound[c]
            \/ kind[c] # "none" /\ inbound'[c] = Append(inbound[c], f)
        BY <2>1, <3>1, Zenon
      <3>3. \A d \in Clients \ {c} : inbound'[d] = inbound[d]
        BY <2>1, <3>1 DEF TypeInv, ClientTypes
      <3>4. OthersSame(c)
        BY <1>5, <3>3, Zenon DEF OthersSame, Same
      <3>q. QED
        BY <1>5, <2>1, <3>1, <3>2, <3>4, Zenon DEF Relays
    <2>2. CASE /\ inbox' = Append(inbox, Reply(f.token, <<>>))
               /\ owner' = owner /\ inbound' = inbound
      BY <1>5, <2>2, Zenon DEF Relays, clientVars
    <2>q. QED
      BY <1>5, <2>1, <2>2
  <1>q. QED
    BY <1>1, <1>4, <1>6, Zenon

Removes(c) ==
  /\ Head(server) \in Removals(c) /\ owner' \subseteq owner
  /\ \E r \in Seq(Messages) :
       /\ inbox' = inbox \o r
       /\ \A i \in 1 .. Len(r) : /\ r[i].what = "reply" /\ r[i].answers = <<>>
                                 /\ <<r[i].token, c>> \in owner

LEMMA RemoveIs ==
  ASSUME TypeInv, RemoveClient
  PROVE  /\ server # <<>> /\ server' = Tail(server)
         /\ UNCHANGED <<writerVars, paneVars, forwardVars, clientVars, history>>
         /\ \E c \in Clients : Removes(c)
  <1>1. /\ server # <<>> /\ Head(server).what = "remove" /\ server' = Tail(server)
        /\ UNCHANGED <<writerVars, paneVars, forwardVars, clientVars, history>>
    BY DEF RemoveClient
  <1>2. Head(server) \in Served
    BY <1>1, TrafficTypes
  <1>3. PICK c : c = Head(server).client
    OBVIOUS
  <1>4. c \in Clients /\ Head(server) \in Removals(c)
    BY <1>1, <1>2, <1>3, ServedKinds
  <1>5. owner' \subseteq owner
    BY DEF RemoveClient
  <1>6. PICK r \in Seq(Messages) :
          /\ inbox' = inbox \o r
          /\ \A i \in 1 .. Len(r) : /\ r[i].what = "reply" /\ r[i].answers = <<>>
                                    /\ <<r[i].token, c>> \in owner
    BY <1>3, Released
  <1>7. Removes(c)
    BY <1>4, <1>5, <1>6, Zenon DEF Removes
  <1>q. QED
    BY <1>1, <1>4, <1>7

LEMMA TimerIs ==
  ASSUME TypeInv, NEW t \in timers, ServerTimer(t)
  PROVE  /\ timers' = timers \ {t} /\ t \in Nat
         /\ inbox' = Append(inbox, Reply(t, <<>>))
         /\ UNCHANGED <<writerVars, paneVars, forward, waiting, nextToken,
                        serverVars, clientVars, disturbed>>
         /\ surprised' = TRUE \/ (surprised' = surprised /\ ~OnItsWay(t))
  <1>1. /\ timers' = timers \ {t} /\ inbox' = Append(inbox, Reply(t, <<>>))
        /\ UNCHANGED <<writerVars, paneVars, forward, waiting, nextToken,
                       serverVars, clientVars, disturbed>>
    BY DEF ServerTimer
  <1>2. surprised' = TRUE \/ (surprised' = surprised /\ ~OnItsWay(t))
    BY Zenon DEF ServerTimer, Surprise
  <1>3. t \in Nat
    BY TrafficTypes
  <1>q. QED
    BY <1>1, <1>2, <1>3

-----------------------------------------------------------------------------
(* A step that has nothing to do with the queries for the terminal: no new *)
(* reply is in the channel of Screen.                                      *)

Bystanding ==
  /\ UNCHANGED <<serverVars, clientVars, forwardVars, surprised>>
  /\ Replies(inbox') \subseteq Replies(inbox)

LEMMA CallAsks ==
  ASSUME NEW p, NEW items, NEW b, NEW kept, NEW answers, NEW rest,
         Call(p, items, b, kept, answers, rest)
  PROVE  \E a \in Seq(Messages) : /\ inbox' = rest \o a /\ rest \in Seq(Messages)
                                  /\ \A i \in 1 .. Len(a) : a[i].what = "query"
  <1>1. /\ p \in Panes /\ items \in Items /\ b \in BOOLEAN /\ rest \in Seq(Messages)
        /\ Process(p, items, b, kept, answers, rest)
    BY DEF Call
  <1>2. PICK n \in 0 .. Len(items) : Did(p, items, b, kept, answers, rest, n)
    BY <1>1, ProcessIs, Zenon
  <1>3. inbox' = rest \o (IF n = 0 THEN <<>> ELSE Asks(p, items[n]))
    BY <1>2 DEF Did
  <1>4. CASE n = 0
    <2>1. <<>> \in Seq(Messages) /\ Len(<<>>) = 0 /\ \A i \in 1 .. 0 : FALSE
      OBVIOUS
    <2>2. inbox' = rest \o <<>>
      BY <1>3, <1>4
    <2>q. QED
      BY <1>1, <2>1, <2>2
  <1>5. CASE n # 0
    <2>1. items[n] \in Nat
      BY <1>1, <1>5 DEF Items
    <2>2. Asks(p, items[n]) \in Seq(Messages)
      BY <1>1, <2>1, AsksType
    <2>3. Forwarded(p, items[n]) \in Seq(Units)
      BY <1>1, <2>1, ForwardedType
    <2>4. \A i \in 1 .. Len(Asks(p, items[n])) : Asks(p, items[n])[i].what = "query"
      BY <2>3 DEF Asks
    <2>5. inbox' = rest \o Asks(p, items[n])
      BY <1>3, <1>5
    <2>q. QED
      BY <1>1, <2>2, <2>4, <2>5, Zenon
  <1>q. QED
    BY <1>4, <1>5

LEMMA CallReplies ==
  ASSUME NEW p, NEW items, NEW b, NEW kept, NEW answers, NEW rest,
         Call(p, items, b, kept, answers, rest)
  PROVE  Replies(inbox') \subseteq Replies(rest)
  <1>1. PICK a \in Seq(Messages) : /\ inbox' = rest \o a /\ rest \in Seq(Messages)
                                   /\ \A i \in 1 .. Len(a) : a[i].what = "query"
    BY CallAsks, Zenon
  <1>2. Replies(a) = {}
    <2>1. \A i \in 1 .. Len(a) : a[i].what # "reply"
      BY <1>1
    <2>q. QED
      BY <2>1 DEF Replies
  <1>3. Replies(inbox') \subseteq Replies(rest) \cup Replies(a)
    BY <1>1, RepliesJoined
  <1>q. QED
    BY <1>2, <1>3

LEMMA ResumesReplies ==
  ASSUME NEW p, NEW answers, NEW rest, Resumes(p, answers, rest)
  PROVE  Replies(inbox') \subseteq Replies(rest)
  <1>1. CASE Call(p, buffered[p], FALSE, <<>>, answers, rest)
    BY <1>1, CallReplies, Zenon
  <1>2. CASE inbox' = rest
    BY <1>2
  <1>q. QED
    BY <1>1, <1>2 DEF Resumes

LEMMA ParsesReplies ==
  ASSUME NEW p, NEW rest, Parses(p, rest)
  PROVE  Replies(inbox') \subseteq Replies(rest)
  <1>1. PICK items \in Items, kept \in Items, b \in BOOLEAN : Call(p, items, b, kept, <<>>, rest)
    BY Zenon DEF Parses
  <1>q. QED
    BY <1>1, CallReplies, Zenon

LEMMA Bystanders ==
  ASSUME TypeInv, KeptInv,
         \/ \E p \in Panes : \/ Prints(p) \/ ScrollUp(p) \/ ScrollToBottom(p)
                             \/ ScrollTerminalDown(p) \/ MoveToTab(p) \/ ClosePane(p)
         \/ HandlePtyBytes \/ AnswerColorMode \/ WriterStep \/ UNCHANGED vars
  PROVE  Bystanding
  <1>1. inbox \in Seq(Messages)
    BY TrafficTypes
  <1>2. inbox # <<>> => Replies(Tail(inbox)) \subseteq Replies(inbox)
    BY <1>1, RepliesTaken
  <1>3. ASSUME NEW p \in Panes, Prints(p) PROVE Bystanding
    <2>1. PICK chunk : chunk = Head(script[p])
      OBVIOUS
    <2>2. PICK m : m = [what |-> "bytes", pane |-> p,
                        items |-> [i \in 1 .. Len(chunk) |-> Len(printed[p]) + i]]
      OBVIOUS
    <2>3. inbox' = Append(inbox, m) /\ UNCHANGED <<serverVars, clientVars, forwardVars, surprised>>
      BY <1>3, <2>1, <2>2 DEF Prints, history
    <2>4. PICK S : S = Messages \cup {m}
      OBVIOUS
    <2>5. m.what # "reply" /\ m \in S /\ Messages \subseteq S
      BY <2>2, <2>4
    <2>6. inbox \in Seq(S)
      BY <1>1, <2>5, SeqMonotonic
    <2>7. Replies(inbox') \subseteq Replies(inbox)
      BY <2>3, <2>5, <2>6, RepliesAppended
    <2>q. QED
      BY <2>3, <2>7 DEF Bystanding
  <1>4. ASSUME NEW p \in Panes, ScrollUp(p) \/ ScrollTerminalDown(p) \/ MoveToTab(p) \/ ClosePane(p)
        PROVE  Bystanding
    BY <1>4 DEF ScrollUp, ScrollTerminalDown, MoveToTab, ClosePane, Command, Bystanding
  <1>5. ASSUME NEW p \in Panes, ScrollToBottom(p) PROVE Bystanding
    <2>1. Parses(p, inbox) /\ UNCHANGED <<serverVars, clientVars, forwardVars, surprised>>
      BY <1>5, ScrollToBottomIs
    <2>q. QED
      BY <2>1, ParsesReplies, Zenon DEF Bystanding
  <1>6. CASE HandlePtyBytes
    <2>1. inbox # <<>> /\ UNCHANGED <<serverVars, clientVars, forwardVars, surprised>>
          /\ (inbox' = Tail(inbox) \/ \E p \in Panes : Parses(p, Tail(inbox)))
      BY <1>6, PtyBytesIs DEF history
    <2>2. Replies(inbox') \subseteq Replies(Tail(inbox))
      BY <2>1, ParsesReplies, Zenon
    <2>q. QED
      BY <1>2, <2>1, <2>2 DEF Bystanding
  <1>7. CASE AnswerColorMode
    <2>1. inbox # <<>> /\ UNCHANGED <<serverVars, clientVars, forwardVars, surprised>>
      BY <1>7, ColorModeIs DEF history
    <2>2. PICK q \in Units :
              \/ Resumes(q.pane, <<q>>, Tail(inbox)) \/ Resumes(q.pane, <<>>, Tail(inbox))
              \/ inbox' = Tail(inbox)
      BY <1>7, ColorModeIs, Zenon
    <2>3. Replies(inbox') \subseteq Replies(Tail(inbox))
      BY <2>2, ResumesReplies, Zenon
    <2>q. QED
      BY <1>2, <2>1, <2>3 DEF Bystanding
  <1>8. CASE WriterStep
    BY <1>8 DEF WriterStep, Bystanding, history
  <1>9. CASE UNCHANGED vars
    BY <1>9 DEF vars, Bystanding, history
  <1>q. QED
    BY <1>3, <1>4, <1>5, <1>6, <1>7, <1>8, <1>9

(* The farewell. *)

LEMMA ServerClear ==
  ASSUME TypeInv, NEW c,
         \/ server' = server \/ (server # <<>> /\ server' = Tail(server))
         \/ \E f \in Forwards : server' = Append(server, [what |-> "forward", to |-> f])
  PROVE  Clear(server, Removals(c)) => Clear(server', Removals(c))
  <1>1. PICK T : T = Removals(c)
    OBVIOUS
  <1>2. server \in Seq(Served)
    BY TrafficTypes
  <1>3. CASE server # <<>> /\ server' = Tail(server)
    <2>1. Clear(server, T) => Clear(server', T)
      BY <1>2, <1>3, Taking
    <2>q. QED
      BY <1>1, <2>1
  <1>4. ASSUME NEW f \in Forwards, server' = Append(server, [what |-> "forward", to |-> f])
        PROVE  Clear(server, Removals(c)) => Clear(server', Removals(c))
    <2>1. PICK m : m = [what |-> "forward", to |-> f]
      OBVIOUS
    <2>2. m \in Forwarding /\ m \in Served
      BY <2>1, ServedIs
    <2>3. m \notin T
      BY <1>1, <2>2, ServedKinds
    <2>4. PICK v : v = server'
      OBVIOUS
    <2>5. v = Append(server, m)
      BY <1>4, <2>1, <2>4
    <2>6. Clear(server, T) => Clear(v, T)
      BY <1>2, <2>2, <2>3, <2>5, Appending
    <2>q. QED
      BY <1>1, <2>4, <2>6
  <1>q. QED
    BY <1>3, <1>4

LEMMA FarewellApart ==
  ASSUME TypeInv, Farewell, UNCHANGED clientVars,
         \/ server' = server \/ (server # <<>> /\ server' = Tail(server))
         \/ \E f \in Forwards : server' = Append(server, [what |-> "forward", to |-> f])
  PROVE  Farewell'
  <1>1. ASSUME NEW c \in Clients PROVE FarewellAt(c)'
    <2>1. Clear(server, Removals(c)) => Clear(server', Removals(c))
      BY ServerClear
    <2>2. /\ kind'[c] = kind[c] /\ inbound'[c] = inbound[c] /\ slot'[c] = slot[c]
          /\ host'[c] = host[c] /\ outbound'[c] = outbound[c]
      BY DEF clientVars
    <2>q. QED
      BY <2>1, <2>2, FarewellStays DEF Farewell
  <1>q. QED
    BY <1>1 DEF Farewell

LEMMA FarewellOthers ==
  ASSUME TypeInv, Farewell, NEW c \in Clients, OthersSame(c),
         \A d \in Clients \ {c} : Clear(server, Removals(d)) => Clear(server', Removals(d)),
         FarewellAt(c)'
  PROVE  Farewell'
  <1>1. ASSUME NEW d \in Clients, d # c PROVE FarewellAt(d)'
    <2>1. /\ kind'[d] = kind[d] /\ inbound'[d] = inbound[d] /\ slot'[d] = slot[d]
          /\ host'[d] = host[d] /\ outbound'[d] = outbound[d]
      BY <1>1 DEF OthersSame, Same
    <2>2. Clear(server, Removals(d)) => Clear(server', Removals(d))
      BY <1>1
    <2>q. QED
      BY <2>1, <2>2, FarewellStays DEF Farewell
  <1>q. QED
    BY <1>1 DEF Farewell

\* A client that is there has said nothing about leaving.
LEMMA FarewellActive ==
  ASSUME TypeInv, Farewell, NEW c \in Clients, OthersSame(c), server' = server,
         kind[c] # "none", kind'[c] = kind[c],
         kind[c] # "terminal" => slot'[c] = <<>> /\ host'[c] = <<>>,
         \/ outbound'[c] = outbound[c]
         \/ \E m \in Replying : outbound'[c] = Append(outbound[c], m)
  PROVE  Farewell'
  <1>1. outbound[c] \in Seq(Outbound)
    BY TrafficTypes
  <1>2. Clear(outbound[c], Byes) /\ Clear(server, Removals(c))
    BY DEF Farewell, FarewellAt
  <1>3. Clear(outbound'[c], Byes)
    <2>1. ASSUME NEW m \in Replying, outbound'[c] = Append(outbound[c], m)
          PROVE  Clear(outbound'[c], Byes)
      <3>1. m \in Outbound /\ m \notin Byes
        BY OutboundKinds
      <3>q. QED
        BY <1>1, <1>2, <2>1, <3>1, Appending
    <2>q. QED
      BY <1>2, <2>1
  <1>4. LastOnly(outbound'[c], Byes)
    BY <1>3 DEF Clear, LastOnly
  <1>5. Removals(c)' = Removals(c) /\ Byes' = Byes /\ Clear(server', Removals(c))
    BY <1>2 DEF Removals, Byes
  <1>6. FarewellAt(c)'
    BY <1>3, <1>4, <1>5 DEF FarewellAt, Clear, LastOnly
  <1>q. QED
    BY <1>6, FarewellOthers

LEMMA FarewellLeaves ==
  ASSUME TypeInv, Farewell, NEW c \in Clients, OthersSame(c), server' = server, Leaves(c)
  PROVE  Farewell'
  <1>1. outbound[c] \in Seq(Outbound)
    BY TrafficTypes
  <1>2. kind[c] # "none" /\ Clear(outbound[c], Byes) /\ Clear(server, Removals(c))
    BY DEF Farewell, FarewellAt, Leaves
  <1>3. LastOnly(outbound'[c], Byes)
    <2>1. PICK m \in Byes : outbound'[c] = Append(outbound[c], m)
      BY DEF Leaves
    <2>2. m \in Outbound
      BY OutboundKinds
    <2>3. \A x \in Outbound : LastOnly(Append(outbound[c], x), Byes)
      BY <1>1, <1>2, LastOnlyChanges
    <2>q. QED
      BY <2>1, <2>2, <2>3
  <1>4. Removals(c)' = Removals(c) /\ Byes' = Byes /\ Clear(server', Removals(c))
    BY <1>2 DEF Removals, Byes
  <1>5. FarewellAt(c)'
    BY <1>3, <1>4 DEF FarewellAt, Clear, LastOnly, Leaves
  <1>q. QED
    BY <1>5, FarewellOthers

LEMMA FarewellRoute ==
  ASSUME TypeInv, Farewell, NEW c \in Clients, Route(c)
  PROVE  Farewell'
  <1>1. outbound[c] # <<>> /\ OthersSame(c) /\ \E m \in Outbound : Routes(c, m)
    BY RouteIs
  <1>2. PICK m \in Outbound : Routes(c, m)
    BY <1>1
  <1>3. outbound[c] \in Seq(Outbound) /\ server \in Seq(Served)
    BY TrafficTypes
  <1>4. FarewellAt(c)
    BY DEF Farewell
  <1>5. LastOnly(Tail(outbound[c]), Byes) /\ (m \in Byes => Tail(outbound[c]) = <<>>)
    <2>1. LastOnly(outbound[c], Byes) /\ m = Head(outbound[c])
      BY <1>2, <1>4 DEF FarewellAt, Routes
    <2>q. QED
      BY <1>1, <1>3, <2>1, LastOnlyChanges
  <1>6. Clear(outbound[c], Byes) => Clear(Tail(outbound[c]), Byes) /\ m \notin Byes
    <2>1. PICK u : u = Tail(outbound[c])
      OBVIOUS
    <2>2. m = Head(outbound[c])
      BY <1>2 DEF Routes
    <2>3. Clear(outbound[c], Byes) => Clear(u, Byes) /\ Head(outbound[c]) \notin Byes
      BY <1>1, <1>3, <2>1, Taking
    <2>q. QED
      BY <2>1, <2>2, <2>3
  <1>7. Removals(c)' = Removals(c) /\ Byes' = Byes
    BY DEF Removals, Byes
  <1>8. CASE m \in Replying
    <2>1. server' = server
      BY <1>2, <1>8, OutboundKinds DEF Routes
    <2>2. \/ Clear(server', Removals(c))
          \/ kind'[c] = "none" /\ outbound'[c] = <<>>
      <3>1. outbound[c] # <<>>
        BY <1>1
      <3>q. QED
        BY <1>4, <2>1, <3>1 DEF FarewellAt
    <2>3. FarewellAt(c)'
      BY <1>2, <1>4, <1>5, <1>6, <1>7, <2>2 DEF FarewellAt, Clear, LastOnly, Routes
    <2>q. QED
      BY <1>1, <2>1, <2>3, FarewellOthers
  <1>9. CASE m \in Byes
    <2>1. kind[c] = "none"
      BY <1>4, <1>6, <1>9 DEF FarewellAt
    <2>2. outbound'[c] = <<>> /\ kind'[c] = "none"
      BY <1>2, <1>5, <1>9, <2>1 DEF Routes
    <2>3. FarewellAt(c)'
      BY <1>2, <1>4, <1>5, <1>6, <1>7, <2>2 DEF FarewellAt, Clear, LastOnly, Routes
    <2>4. PICK r : r = [what |-> "remove", client |-> c]
      OBVIOUS
    <2>5. server' = Append(server, r) /\ r \in Removals(c) /\ r \in Served
      BY <1>2, <1>9, <2>4, OutboundKinds, ServedIs DEF Routes
    <2>6. ASSUME NEW d \in Clients, d # c, Clear(server, Removals(d))
          PROVE  Clear(server', Removals(d))
      <3>1. r \notin Removals(d)
        BY <2>5, <2>6, ServedKinds
      <3>2. PICK T : T = Removals(d)
        OBVIOUS
      <3>3. Clear(server', T)
        BY <1>3, <2>5, <2>6, <3>1, <3>2, Appending
      <3>q. QED
        BY <3>2, <3>3
    <2>q. QED
      BY <1>1, <2>3, <2>6, FarewellOthers
  <1>q. QED
    BY <1>8, <1>9, OutboundKinds

LEMMA FarewellRelays ==
  ASSUME TypeInv, Farewell, ForwardQueryToHost
  PROVE  Farewell'
  <1>1. server # <<>> /\ server' = Tail(server)
    BY ToHostIs
  <1>2. PICK f \in Forwards : Relays(f)
    BY ToHostIs
  <1>3. ASSUME NEW c \in Clients, OthersSame(c), kind'[c] = kind[c], slot'[c] = slot[c],
               host'[c] = host[c], outbound'[c] = outbound[c],
               kind[c] = "none" => inbound'[c] = inbound[c]
        PROVE  Farewell'
    <2>1. \A d : Clear(server, Removals(d)) => Clear(server', Removals(d))
      BY <1>1, ServerClear
    <2>2. Removals(c)' = Removals(c) /\ Byes' = Byes
      BY DEF Removals, Byes
    <2>3. FarewellAt(c)'
      BY <1>3, <2>1, <2>2 DEF Farewell, FarewellAt, Clear, LastOnly
    <2>q. QED
      BY <1>3, <2>1, <2>3, FarewellOthers
  <1>4. CASE UNCHANGED clientVars
    BY <1>1, <1>4, FarewellApart
  <1>q. QED
    BY <1>2, <1>3, <1>4 DEF Relays

LEMMA FarewellClient ==
  ASSUME TypeInv, Farewell, NEW c \in Clients,
         OpenForward(c) \/ HostTerminal(c) \/ ClientTimer(c) \/ ClientLeaves(c)
  PROVE  Farewell'
  <1>1. server' = server
    BY DEF OpenForward, HostTerminal, ClientTimer, ClientLeaves, serverVars
  <1>2. FarewellAt(c)
    BY DEF Farewell
  <1>3. CASE OpenForward(c)
    <2>1. OthersSame(c)
      BY <1>3, OpenForwardIs
    <2>2. PICK f \in Forwards : Opens(c, f)
      BY <1>3, OpenForwardIs
    <2>3. kind'[c] = kind[c] /\ kind[c] # "none"
      BY <2>2 DEF Opens
    <2>4. kind[c] # "terminal" => slot'[c] = <<>> /\ host'[c] = <<>>
      BY <1>2, <2>2 DEF Opens, FarewellAt
    <2>5. \/ outbound'[c] = outbound[c]
          \/ \E m \in Replying : outbound'[c] = Append(outbound[c], m)
      <3>1. f.token \in Nat /\ <<>> \in Seq(Units)
        BY DEF Forwards
      <3>2. Reply(f.token, <<>>) \in Replying
        BY <3>1, ReplyIs
      <3>q. QED
        BY <2>2, <3>2 DEF Opens, Answered
    <2>q. QED
      BY <1>1, <2>1, <2>3, <2>4, <2>5, FarewellActive
  <1>4. CASE HostTerminal(c)
    <2>1. OthersSame(c) /\ host[c] # <<>>
      BY <1>4, HostTerminalIs
    <2>2. PICK h \in Questions : Hears(c, h)
      BY <1>4, HostTerminalIs
    <2>3. kind'[c] = kind[c] /\ kind[c] = "terminal"
      BY <1>2, <2>1, <2>2 DEF Hears, FarewellAt
    <2>4. \/ outbound'[c] = outbound[c]
          \/ \E m \in Replying : outbound'[c] = Append(outbound[c], m)
      <3>1. \A t \in Nat, a \in Seq(Units) : Reply(t, a) \in Replying
        BY ReplyIs
      <3>q. QED
        BY <2>2, <3>1 DEF Hears, Answered
    <2>q. QED
      BY <1>1, <2>1, <2>3, <2>4, FarewellActive
  <1>5. CASE ClientTimer(c)
    <2>1. OthersSame(c)
      BY <1>5, ClientTimerIs
    <2>2. PICK t \in Nat, a \in Seq(Units) : Closes(c, t, a)
      BY <1>5, ClientTimerIs
    <2>3. kind'[c] = kind[c] /\ kind[c] = "terminal"
      <3>1. slot[c] # <<>>
        BY <1>5 DEF ClientTimer
      <3>q. QED
        BY <1>2, <2>2, <3>1 DEF Closes, FarewellAt
    <2>4. \E m \in Replying : outbound'[c] = Append(outbound[c], m)
      <3>1. Reply(t, a) \in Replying
        BY ReplyIs
      <3>q. QED
        BY <2>2, <3>1 DEF Closes, Answered
    <2>q. QED
      BY <1>1, <2>1, <2>3, <2>4, FarewellActive
  <1>6. CASE ClientLeaves(c)
    BY <1>1, <1>6, ClientLeavesIs, FarewellLeaves
  <1>q. QED
    BY <1>3, <1>4, <1>5, <1>6

LEMMA FarewellKept == TypeInv /\ KeptInv /\ Farewell /\ [Next]_vars => Farewell'
  <1> SUFFICES ASSUME TypeInv, KeptInv, Farewell, [Next]_vars PROVE Farewell'
    OBVIOUS
  <1>1. CASE Bystanding
    BY <1>1, FarewellApart DEF Bystanding, serverVars
  <1>2. CASE ForwardHostQuery \/ HandleForwardedReply
    <2>1. UNCHANGED clientVars
      BY <1>2, HostQueryIs, ForwardedReplyIs
    <2>2. server' = server \/ \E f \in Forwards : Dispatch(f)
      BY <1>2, HostQueryIs, ForwardedReplyIs DEF Replied
    <2>3. \/ server' = server
          \/ \E f \in Forwards : server' = Append(server, [what |-> "forward", to |-> f])
      BY <2>2, Zenon DEF Dispatch
    <2>q. QED
      BY <2>1, <2>3, FarewellApart
  <1>3. CASE ServerStep
    <2>1. RemoveClient => Farewell'
      BY RemoveIs, FarewellApart
    <2>q. QED
      BY <1>3, <2>1, FarewellRelays DEF ServerStep
  <1>4. CASE \E token \in timers : ServerTimer(token)
    BY <1>4, TimerIs, FarewellApart DEF serverVars
  <1>5. CASE \E c \in Clients : Route(c)
    BY <1>5, FarewellRoute
  <1>6. CASE \E c \in Clients : OpenForward(c) \/ HostTerminal(c) \/ ClientTimer(c) \/ ClientLeaves(c)
    BY <1>6, FarewellClient
  <1>q. QED
    BY <1>1, <1>2, <1>3, <1>4, <1>5, <1>6, Bystanders, Zenon DEF Next, User, ScreenStep

-----------------------------------------------------------------------------
(* The query in flight. *)

\* A client that has nothing to do with the query in flight.
Idle(c) ==
  /\ kind[c] = "old" \/ inbound[c] = <<>>
  /\ slot[c] = <<>> /\ host[c] = <<>>
  /\ Clear(outbound[c], Replying)

\* The query is on its way to the client, in its hands, or answered.
OwnAnswer(f) == {<<>>, <<f.query>>}
Asking(c, f) ==
  /\ kind[c] # "old" /\ inbound[c] = <<f>>
  /\ slot[c] = <<>> /\ host[c] = <<>> /\ Clear(outbound[c], Replying)
Capturing(c, f) ==
  /\ kind[c] = "terminal" /\ inbound[c] = <<>> /\ Clear(outbound[c], Replying)
  /\ \E a \in OwnAnswer(f) :
       /\ slot[c] = <<[token |-> f.token, answers |-> a]>>
       /\ \/ host[c] = <<>> \/ host[c] = <<Barred(f, TRUE)>>
          \/ a = <<>> /\ host[c] = <<Barred(f, FALSE), Barred(f, TRUE)>>
Answering(c, f) ==
  /\ kind[c] # "old" /\ inbound[c] = <<>> /\ slot[c] = <<>> /\ host[c] = <<>>
  /\ \E a \in OwnAnswer(f) : Sole(outbound[c], Replying, Reply(f.token, a))
Busy(c, f) == Asking(c, f) \/ Capturing(c, f) \/ Answering(c, f)

ServerIdle == Clear(server, Forwarding)
AtServer(f) ==
  /\ Sole(server, Forwarding, [what |-> "forward", to |-> f])
  /\ \A c \in Clients : Idle(c) /\ <<f.token, c>> \notin owner
AtClient(c, f) ==
  /\ ServerIdle /\ Busy(c, f)
  /\ \A d \in Clients \ {c} : Idle(d) /\ <<f.token, d>> \notin owner
Quiet == ServerIdle /\ \A c \in Clients : Idle(c)

\* A query is at one place, and nobody has answered it; or it is at none, and
\* what Screen will find is its answer.
Unanswered(f) == \A m \in Replies(inbox) : m.token # f.token
OnlyOwn(f) == \A m \in Replies(inbox) : m.token = f.token => m.answers \in OwnAnswer(f)
AtOnePlace(f) ==
  \/ Quiet /\ OnlyOwn(f)
  \/ Unanswered(f) /\ AtServer(f)
  \/ Unanswered(f) /\ \E c \in Clients : AtClient(c, f)

OneAtATime ==
  /\ forward = <<>> => Quiet
  /\ \A f \in Forwards : forward = <<f>> => AtOnePlace(f)

\* Tokens are given in order, and those that wait are nowhere else.
UpTo(n) ==
  /\ \A m \in Replies(inbox) : m.token <= n
  /\ \A t \in timers : t <= n
  /\ \A t \in Nat, c \in Clients : <<t, c>> \in owner => t <= n
Numbered ==
  /\ \A n \in Nat : forward = <<>> /\ n + 1 = nextToken => UpTo(n)
  /\ \A f \in Forwards : forward = <<f>> =>
       /\ UpTo(f.token) /\ f.token < nextToken
       /\ \A i \in 1 .. Len(waiting) : f.token < waiting[i].token
  /\ \A i \in 1 .. Len(waiting) : waiting[i].token < nextToken
  /\ \A i, j \in 1 .. Len(waiting) : i < j => waiting[i].token < waiting[j].token

TrafficInv == ~surprised => Numbered /\ OneAtATime

LEMMA OwnAnswers2 ==
  ASSUME NEW f \in Forwards
  PROVE  /\ f.token \in Nat /\ f.query \in Units
         /\ \A a \in OwnAnswer(f) : a \in Seq(Units)
         /\ <<>> \in OwnAnswer(f) /\ <<f.query>> \in OwnAnswer(f)
  BY DEF OwnAnswer, Forwards

\* The answer of a query is sent.
LEMMA Sends ==
  ASSUME TypeInv, NEW c \in Clients, NEW f \in Forwards, NEW a \in OwnAnswer(f),
         Clear(outbound[c], Replying), Answered(c, f.token, a),
         kind'[c] # "old", inbound'[c] = <<>>, slot'[c] = <<>>, host'[c] = <<>>
  PROVE  Answering(c, f)'
  <1>1. PICK m : m = Reply(f.token, a)
    OBVIOUS
  <1>2. m \in Outbound
    BY <1>1, OwnAnswers2, ReplyIs
  <1>3. outbound[c] \in Seq(Outbound)
    BY TrafficTypes
  <1>4. PICK u : u = outbound'[c]
    OBVIOUS
  <1>5. u = Append(outbound[c], m)
    BY <1>1, <1>4 DEF Answered
  <1>6. PICK T : T = Replying
    OBVIOUS
  <1>7. Sole(u, T, m)
    BY <1>2, <1>3, <1>5, <1>6, Appending
  <1>8. Sole(outbound'[c], Replying, Reply(f.token, a))
    BY <1>1, <1>4, <1>6, <1>7
  <1>9. Replying' = Replying /\ OwnAnswer(f)' = OwnAnswer(f)
        /\ Reply(f.token, a)' = Reply(f.token, a)
    BY DEF Replying, OwnAnswer, Reply
  <1>q. QED
    BY <1>8, <1>9 DEF Answering, Sole

\* What a step of the client leaves of that.
Onwards(c) ==
  /\ Idle(c) => Idle(c)'
  /\ \A f \in Forwards : Busy(c, f) => Busy(c, f)' \/ Idle(c)'

LEMMA OpensOn ==
  ASSUME TypeInv, NEW c \in Clients, NEW g \in Forwards, inbound[c] # <<>>, Opens(c, g)
  PROVE  Onwards(c)
  <1>0. Replying' = Replying
    BY DEF Replying
  <1>1. ASSUME Idle(c) PROVE Idle(c)'
    <2>1. kind[c] = "old"
      BY <1>1 DEF Idle
    <2>q. QED
      BY <1>0, <1>1, <2>1 DEF Idle, Opens, Clear
  <1>2. ASSUME NEW f \in Forwards, Asking(c, f) PROVE Busy(c, f)' \/ Idle(c)'
    <2>1. /\ inbound[c] = <<f>> /\ slot[c] = <<>> /\ host[c] = <<>> /\ kind[c] # "old"
          /\ Clear(outbound[c], Replying)
      BY <1>2 DEF Asking
    <2>2. f = g /\ inbound'[c] = <<>> /\ kind'[c] = kind[c]
      BY <2>1 DEF Opens
    <2>3. CASE /\ kind[c] = "terminal" /\ slot'[c] = <<[token |-> g.token, answers |-> <<>>]>>
               /\ host'[c] = host[c] \o <<Barred(g, FALSE), Barred(g, TRUE)>>
               /\ outbound'[c] = outbound[c]
      <3>1. Barred(f, TRUE)' = Barred(f, TRUE) /\ Barred(f, FALSE)' = Barred(f, FALSE)
            /\ OwnAnswer(f)' = OwnAnswer(f)
        BY DEF Barred, OwnAnswer
      <3>2. PICK b1, b2 : b1 = Barred(f, FALSE) /\ b2 = Barred(f, TRUE)
        OBVIOUS
      <3>3. <<>> \o <<b1, b2>> = <<b1, b2>>
        OBVIOUS
      <3>4. host'[c] = <<b1, b2>>
        BY <2>1, <2>2, <2>3, <3>2, <3>3
      <3>5. Clear(outbound'[c], Replying')
        BY <1>0, <2>1, <2>3
      <3>6. Capturing(c, f)'
        BY <2>2, <2>3, <3>1, <3>2, <3>4, <3>5, OwnAnswers2, Zenon DEF Capturing, Clear
      <3>q. QED
        BY <3>6 DEF Busy
    <2>4. CASE /\ kind[c] = "web" /\ slot'[c] = slot[c] /\ host'[c] = host[c]
               /\ Answered(c, g.token, <<>>)
      <3>1. Answering(c, f)'
        BY <2>1, <2>2, <2>4, OwnAnswers2, Sends
      <3>q. QED
        BY <3>1 DEF Busy
    <2>q. QED
      BY <2>1, <2>3, <2>4 DEF Opens
  <1>q. QED
    BY <1>1, <1>2 DEF Onwards, Busy, Capturing, Answering

LEMMA HearsOn ==
  ASSUME TypeInv, NEW c \in Clients, NEW h \in Questions, host[c] # <<>>, Hears(c, h)
  PROVE  Onwards(c)
  <1>0. Replying' = Replying
    BY DEF Replying
  <1>1. ASSUME NEW f \in Forwards, Capturing(c, f) PROVE Busy(c, f)' \/ Idle(c)'
    <2>1. PICK a \in OwnAnswer(f) :
            /\ slot[c] = <<[token |-> f.token, answers |-> a]>>
            /\ \/ host[c] = <<Barred(f, TRUE)>>
               \/ a = <<>> /\ host[c] = <<Barred(f, FALSE), Barred(f, TRUE)>>
      BY <1>1 DEF Capturing
    <2>2. /\ kind'[c] = "terminal" /\ inbound'[c] = <<>>
          /\ Clear(outbound[c], Replying)
      BY <1>1 DEF Capturing, Hears
    <2>3. /\ Barred(f, TRUE)' = Barred(f, TRUE) /\ Barred(f, FALSE)' = Barred(f, FALSE)
          /\ OwnAnswer(f)' = OwnAnswer(f)
      BY DEF Barred, OwnAnswer
    <2>4. /\ Barred(f, FALSE).query = f.query /\ ~Barred(f, FALSE).barrier
          /\ Barred(f, TRUE).barrier
      BY DEF Barred
    <2>5. \/ h = Barred(f, TRUE) /\ host'[c] = <<>>
          \/ h = Barred(f, FALSE) /\ a = <<>> /\ host'[c] = <<Barred(f, TRUE)>>
      <3>1. PICK b1, b2 : b1 = Barred(f, FALSE) /\ b2 = Barred(f, TRUE)
        OBVIOUS
      <3>2. /\ Head(<<b2>>) = b2 /\ Tail(<<b2>>) = <<>>
            /\ Head(<<b1, b2>>) = b1 /\ Tail(<<b1, b2>>) = <<b2>>
        OBVIOUS
      <3>3. h = Head(host[c]) /\ host'[c] = Tail(host[c])
        BY DEF Hears
      <3>q. QED
        BY <2>1, <3>1, <3>2, <3>3, Zenon
    <2>6. CASE slot'[c] = slot[c] /\ outbound'[c] = outbound[c]
      <3>1. host'[c] = <<>> \/ host'[c] = <<Barred(f, TRUE)>>
        BY <2>5
      <3>2. Capturing(c, f)'
        BY <1>0, <2>1, <2>2, <2>3, <2>6, <3>1, Zenon DEF Capturing, Clear
      <3>q. QED
        BY <3>2 DEF Busy
    <2>7. ASSUME ~h.barrier, outbound'[c] = outbound[c], NEW t, NEW b,
                 slot[c] = <<[token |-> t, answers |-> b]>>,
                 slot'[c] = <<[token |-> t, answers |-> Append(b, h.query)]>>
          PROVE  Busy(c, f)'
      <3>1. h = Barred(f, FALSE) /\ a = <<>> /\ host'[c] = <<Barred(f, TRUE)>>
        BY <2>4, <2>5, <2>7
      <3>2. t = f.token /\ b = a
        <4>1. [token |-> t, answers |-> b] = [token |-> f.token, answers |-> a]
          BY <2>1, <2>7
        <4>q. QED
          BY <4>1
      <3>3. Append(b, h.query) = <<f.query>>
        <4>1. h.query = f.query /\ b = <<>>
          BY <2>4, <3>1, <3>2
        <4>2. \A q : Append(<<>>, q) = <<q>>
          OBVIOUS
        <4>q. QED
          BY <4>1, <4>2, Zenon
      <3>4. slot'[c] = <<[token |-> f.token, answers |-> <<f.query>>]>>
        BY <2>7, <3>2, <3>3
      <3>5. Capturing(c, f)'
        BY <1>0, <2>2, <2>3, <2>7, <3>1, <3>4, OwnAnswers2, Zenon DEF Capturing, Clear
      <3>q. QED
        BY <3>5 DEF Busy
    <2>8. ASSUME h.barrier, slot'[c] = <<>>, NEW t, NEW b,
                 slot[c] = <<[token |-> t, answers |-> b]>>, Answered(c, t, b)
          PROVE  Busy(c, f)'
      <3>1. host'[c] = <<>>
        BY <2>4, <2>5, <2>8
      <3>2. t = f.token /\ b = a
        <4>1. [token |-> t, answers |-> b] = [token |-> f.token, answers |-> a]
          BY <2>1, <2>8
        <4>q. QED
          BY <4>1
      <3>3. Answering(c, f)'
        BY <2>2, <2>8, <3>1, <3>2, Sends
      <3>q. QED
        BY <3>3 DEF Busy
    <2>q. QED
      BY <2>6, <2>7, <2>8, Zenon DEF Hears
  <1>q. QED
    BY <1>1 DEF Onwards, Busy, Asking, Answering, Idle

LEMMA ClosesOn ==
  ASSUME TypeInv, NEW c \in Clients, NEW t, NEW b, Closes(c, t, b), surprised' # TRUE
  PROVE  Onwards(c)
  <1>1. ASSUME NEW f \in Forwards, Capturing(c, f) PROVE Busy(c, f)'
    <2>1. PICK a \in OwnAnswer(f) :
            /\ slot[c] = <<[token |-> f.token, answers |-> a]>>
            /\ \/ host[c] = <<>> \/ host[c] = <<Barred(f, TRUE)>>
               \/ host[c] = <<Barred(f, FALSE), Barred(f, TRUE)>>
      BY <1>1 DEF Capturing
    <2>2. t = f.token /\ b = a
      <3>1. [token |-> t, answers |-> b] = [token |-> f.token, answers |-> a]
        BY <2>1 DEF Closes
      <3>q. QED
        BY <3>1
    <2>3. \A i \in 1 .. Len(host[c]) : host[c][i].token # f.token
      BY <2>2 DEF Closes
    <2>4. Barred(f, TRUE).token = f.token /\ Barred(f, FALSE).token = f.token
      BY DEF Barred
    <2>5. host[c] = <<>>
      <3>1. PICK b1, b2 : b1 = Barred(f, FALSE) /\ b2 = Barred(f, TRUE)
        OBVIOUS
      <3>2. /\ Len(<<b2>>) = 1 /\ <<b2>>[1] = b2 /\ Len(<<b1, b2>>) = 2
            /\ <<b1, b2>>[1] = b1 /\ 1 \in 1 .. 1 /\ 1 \in 1 .. 2
        OBVIOUS
      <3>q. QED
        BY <2>1, <2>3, <2>4, <3>1, <3>2, Zenon
    <2>6. /\ kind'[c] # "old" /\ inbound'[c] = <<>> /\ slot'[c] = <<>> /\ host'[c] = <<>>
          /\ Clear(outbound[c], Replying) /\ Answered(c, f.token, a)
      BY <1>1, <2>2, <2>5 DEF Capturing, Closes
    <2>7. Answering(c, f)'
      BY <2>6, Sends
    <2>q. QED
      BY <2>7 DEF Busy
  <1>2. slot[c] # <<>>
    <2>1. PICK s : s = [token |-> t, answers |-> b]
      OBVIOUS
    <2>2. <<s>> # <<>>
      OBVIOUS
    <2>q. QED
      BY <2>1, <2>2 DEF Closes
  <1>q. QED
    BY <1>1, <1>2 DEF Onwards, Busy, Asking, Answering, Idle

LEMMA LeavesOn ==
  ASSUME TypeInv, NEW c \in Clients, Leaves(c)
  PROVE  Onwards(c)
  <1>1. PICK m \in Byes : outbound'[c] = Append(outbound[c], m)
    BY DEF Leaves
  <1>2. m \in Outbound /\ m \notin Replying /\ outbound[c] \in Seq(Outbound)
    BY OutboundKinds, TrafficTypes
  <1>3. PICK u, T : u = outbound'[c] /\ T = Replying
    OBVIOUS
  <1>4. /\ Clear(outbound[c], T) => Clear(u, T)
        /\ \A y : Sole(outbound[c], T, y) => Sole(u, T, y)
    <2>1. u = Append(outbound[c], m) /\ m \notin T
      BY <1>1, <1>2, <1>3
    <2>q. QED
      BY <1>2, <2>1, Appending
  <1>5. Replying' = Replying
    BY DEF Replying
  <1>6. /\ kind'[c] = "none" /\ inbound'[c] = <<>> /\ slot'[c] = <<>> /\ host'[c] = <<>>
    BY DEF Leaves
  <1>7. Clear(outbound[c], Replying) => Idle(c)'
    BY <1>3, <1>4, <1>5, <1>6 DEF Idle, Clear
  <1>8. ASSUME NEW f \in Forwards, Answering(c, f) PROVE Answering(c, f)'
    <2>1. PICK a \in OwnAnswer(f) : Sole(outbound[c], Replying, Reply(f.token, a))
      BY <1>8 DEF Answering
    <2>2. Sole(outbound'[c], Replying, Reply(f.token, a))
      BY <1>3, <1>4, <2>1
    <2>3. OwnAnswer(f)' = OwnAnswer(f) /\ Reply(f.token, a)' = Reply(f.token, a)
      BY DEF OwnAnswer, Reply
    <2>q. QED
      BY <1>5, <1>6, <2>2, <2>3 DEF Answering, Sole
  <1>q. QED
    BY <1>7, <1>8 DEF Onwards, Busy, Asking, Capturing, Idle

(* What the others do leaves a client as it is. *)

LEMMA SameIdle ==
  ASSUME NEW d, Same(d)
  PROVE  /\ Idle(d)' <=> Idle(d)
         /\ \A f : Busy(d, f)' <=> Busy(d, f)
  <1>1. Replying' = Replying
    BY DEF Replying
  <1>2. Idle(d)' <=> Idle(d)
    BY <1>1 DEF Same, Idle, Clear
  <1>3. ASSUME NEW f PROVE Busy(d, f)' <=> Busy(d, f)
    <2>1. OwnAnswer(f)' = OwnAnswer(f) /\ \A a : Reply(f.token, a)' = Reply(f.token, a)
      BY DEF OwnAnswer, Reply
    <2>2. Barred(f, TRUE)' = Barred(f, TRUE) /\ Barred(f, FALSE)' = Barred(f, FALSE)
      BY DEF Barred
    <2>3. Asking(d, f)' <=> Asking(d, f)
      BY <1>1 DEF Same, Asking, Clear
    <2>4. Capturing(d, f)' <=> Capturing(d, f)
      BY <1>1, <2>1, <2>2, Zenon DEF Same, Capturing, Clear
    <2>5. Answering(d, f)' <=> Answering(d, f)
      BY <1>1, <2>1, Zenon DEF Same, Answering, Sole
    <2>q. QED
      BY <2>3, <2>4, <2>5 DEF Busy
  <1>q. QED
    BY <1>2, <1>3

LEMMA ServerStays ==
  ASSUME server' = server
  PROVE  /\ ServerIdle' <=> ServerIdle
         /\ \A f : Sole(server, Forwarding, [what |-> "forward", to |-> f])'
                     <=> Sole(server, Forwarding, [what |-> "forward", to |-> f])
  <1>1. Forwarding' = Forwarding
    BY DEF Forwarding, Forwards
  <1>q. QED
    BY <1>1 DEF ServerIdle, Clear, Sole

\* No reply is new, or it is an empty one that is expected.
LEMMA RepliesStay ==
  ASSUME NEW f, Replies(inbox') \subseteq Replies(inbox)
  PROVE  /\ Unanswered(f) => Unanswered(f)'
         /\ OnlyOwn(f) => OnlyOwn(f)'
  <1>1. Replies(inbox)' = Replies(inbox') /\ OwnAnswer(f)' = OwnAnswer(f)
    BY DEF Replies, OwnAnswer
  <1>q. QED
    BY <1>1, Zenon DEF Unanswered, OnlyOwn

LEMMA OnlyOwnIf ==
  ASSUME NEW f, Unanswered(f)
  PROVE  OnlyOwn(f)
  BY DEF Unanswered, OnlyOwn

\* One client moves.
LEMMA MovesOn ==
  ASSUME OneAtATime, NEW c \in Clients, OthersSame(c), Onwards(c),
         UNCHANGED <<server, owner, inbox, forward>>
  PROVE  OneAtATime'
  <1>1. ASSUME NEW d \in Clients, d # c PROVE (Idle(d)' <=> Idle(d)) /\ \A f : Busy(d, f)' <=> Busy(d, f)
    BY <1>1, SameIdle DEF OthersSame
  <1>2. Quiet => Quiet'
    BY <1>1, ServerStays DEF Quiet, Onwards
  <1>3. ASSUME NEW f \in Forwards, AtOnePlace(f) PROVE AtOnePlace(f)'
    <2>1. Unanswered(f)' = Unanswered(f) /\ OnlyOwn(f)' = OnlyOwn(f)
      BY DEF Unanswered, OnlyOwn, Replies, OwnAnswer
    <2>2. AtServer(f) => AtServer(f)'
      BY <1>1, ServerStays DEF AtServer, Onwards
    <2>3. ASSUME NEW d \in Clients, AtClient(d, f)
          PROVE  Quiet' \/ \E e \in Clients : AtClient(e, f)'
      <3>1. ServerIdle' /\ \A e \in Clients \ {d} : Idle(e)' /\ <<f.token, e>> \notin owner'
        BY <1>1, <2>3, ServerStays DEF AtClient, Onwards
      <3>2. Busy(d, f)' \/ Idle(d)'
        BY <1>1, <2>3 DEF AtClient, Onwards
      <3>q. QED
        BY <3>1, <3>2 DEF AtClient, Quiet
    <2>4. Unanswered(f) => OnlyOwn(f)
      BY OnlyOwnIf
    <2>q. QED
      BY <1>2, <1>3, <2>1, <2>2, <2>3, <2>4 DEF AtOnePlace
  <1>q. QED
    BY <1>2, <1>3 DEF OneAtATime

LEMMA OneStays ==
  ASSUME OneAtATime, UNCHANGED <<server, owner, clientVars, forward>>,
         Replies(inbox') \subseteq Replies(inbox)
  PROVE  OneAtATime'
  <1>1. \A d : Same(d)
    BY DEF Same, clientVars
  <1>2. Quiet => Quiet'
    BY <1>1, SameIdle, ServerStays DEF Quiet
  <1>3. ASSUME NEW f \in Forwards, AtOnePlace(f) PROVE AtOnePlace(f)'
    <2>1. (Unanswered(f) => Unanswered(f)') /\ (OnlyOwn(f) => OnlyOwn(f)')
      BY RepliesStay
    <2>2. AtServer(f) => AtServer(f)'
      BY <1>1, SameIdle, ServerStays DEF AtServer
    <2>3. \A d \in Clients : AtClient(d, f) => AtClient(d, f)'
      BY <1>1, SameIdle, ServerStays DEF AtClient
    <2>q. QED
      BY <1>2, <1>3, <2>1, <2>2, <2>3 DEF AtOnePlace
  <1>q. QED
    BY <1>2, <1>3 DEF OneAtATime

LEMMA NumberedStays ==
  ASSUME TypeInv, Numbered, UNCHANGED <<forward, waiting, nextToken>>,
         \A n \in Nat : UpTo(n) => UpTo(n)' \/ \E f \in Forwards : forward = <<f>> /\ n # f.token
  PROVE  Numbered'
  <1>1. ASSUME NEW n \in Nat, forward = <<>>, n + 1 = nextToken PROVE UpTo(n)'
    <2>1. ~\E f \in Forwards : forward = <<f>>
      BY <1>1
    <2>q. QED
      BY <1>1, <2>1 DEF Numbered
  <1>2. ASSUME NEW f \in Forwards, forward = <<f>> PROVE UpTo(f.token)'
    <2>1. f.token \in Nat /\ UpTo(f.token)
      BY <1>2, OwnAnswers2 DEF Numbered
    <2>2. ASSUME NEW g \in Forwards, forward = <<g>> PROVE g = f
      BY <1>2, <2>2
    <2>q. QED
      BY <2>1, <2>2
  <1>q. QED
    BY <1>1, <1>2 DEF Numbered

LEMMA UpToStays ==
  ASSUME NEW n, UpTo(n), Replies(inbox') \subseteq Replies(inbox), timers' \subseteq timers,
         owner' \subseteq owner
  PROVE  UpTo(n)'
  <1>1. Replies(inbox)' = Replies(inbox')
    BY DEF Replies
  <1>q. QED
    BY <1>1 DEF UpTo

LEMMA TrafficBystanding ==
  ASSUME TypeInv, TrafficInv, Bystanding
  PROVE  TrafficInv'
  <1>1. SUFFICES ASSUME ~surprised, Numbered, OneAtATime PROVE Numbered' /\ OneAtATime'
    BY DEF TrafficInv, Bystanding
  <1>2. /\ UNCHANGED <<server, owner, clientVars, forward, waiting, nextToken, timers>>
        /\ Replies(inbox') \subseteq Replies(inbox)
    BY DEF Bystanding, serverVars, forwardVars
  <1>3. OneAtATime'
    BY <1>1, <1>2, OneStays
  <1>4. \A n : UpTo(n) => UpTo(n)'
    BY <1>2, UpToStays
  <1>q. QED
    BY <1>1, <1>2, <1>3, <1>4, NumberedStays

LEMMA TrafficClient ==
  ASSUME TypeInv, Farewell, TrafficInv, NEW c \in Clients,
         OpenForward(c) \/ HostTerminal(c) \/ ClientTimer(c) \/ ClientLeaves(c)
  PROVE  TrafficInv'
  <1>1. SUFFICES ASSUME ~surprised' PROVE Numbered' /\ OneAtATime'
    BY DEF TrafficInv
  <1>2. UNCHANGED <<server, owner, inbox, forward, waiting, nextToken, timers>>
    BY DEF OpenForward, HostTerminal, ClientTimer, ClientLeaves, serverVars, forwardVars
  <1>3. ~surprised /\ OthersSame(c)
    <2>1. surprised' = surprised \/ surprised' = TRUE
      BY ClientTimerIs DEF OpenForward, HostTerminal, ClientLeaves, history
    <2>2. OthersSame(c)
      BY OpenForwardIs, HostTerminalIs, ClientTimerIs, ClientLeavesIs, Zenon
    <2>q. QED
      BY <1>1, <2>1, <2>2
  <1>4. Numbered /\ OneAtATime
    BY <1>3 DEF TrafficInv
  <1>5. Onwards(c)
    <2>1. OpenForward(c) => Onwards(c)
      BY OpenForwardIs, OpensOn
    <2>2. HostTerminal(c) => Onwards(c)
      BY HostTerminalIs, HearsOn
    <2>3. ClientTimer(c) => Onwards(c)
      BY <1>1, ClientTimerIs, ClosesOn
    <2>4. ClientLeaves(c) => Onwards(c)
      BY ClientLeavesIs, LeavesOn
    <2>q. QED
      BY <2>1, <2>2, <2>3, <2>4
  <1>6. OneAtATime'
    BY <1>2, <1>3, <1>4, <1>5, MovesOn
  <1>7. \A n : UpTo(n) => UpTo(n)'
    BY <1>2, UpToStays
  <1>q. QED
    BY <1>2, <1>4, <1>6, <1>7, NumberedStays

\* A query is sent.
LEMMA Dispatched ==
  ASSUME TypeInv, Quiet, NEW f \in Forwards, Dispatch(f), UNCHANGED clientVars,
         Replies(inbox') \subseteq Replies(inbox), Unanswered(f),
         \A c \in Clients : <<f.token, c>> \notin owner, owner' = owner
  PROVE  OneAtATime'
  <1>1. \A d : Same(d)
    BY DEF Same, clientVars
  <1>2. PICK m : m = [what |-> "forward", to |-> f]
    OBVIOUS
  <1>3. m \in Forwarding /\ m \in Served
    BY <1>2, ServedIs
  <1>4. server \in Seq(Served) /\ Clear(server, Forwarding)
    BY TrafficTypes DEF Quiet, ServerIdle
  <1>5. server' = Append(server, m) /\ forward' = <<f>>
    BY <1>2 DEF Dispatch
  <1>6. PICK T : T = Forwarding
    OBVIOUS
  <1>7. Sole(server', T, m)
    BY <1>3, <1>4, <1>5, <1>6, Appending
  <1>8. Forwarding' = Forwarding
    BY DEF Forwarding, Forwards
  <1>9. Sole(server, Forwarding, [what |-> "forward", to |-> f])'
    BY <1>2, <1>6, <1>7, <1>8 DEF Sole
  <1>10. AtServer(f)'
    BY <1>1, <1>9, SameIdle DEF AtServer, Quiet
  <1>11. AtOnePlace(f)'
    BY <1>10, RepliesStay DEF AtOnePlace
  <1>12. \A g \in Forwards : forward' = <<g>> => g = f
    BY <1>5
  <1>13. forward' # <<>>
    BY <1>5
  <1>q. QED
    BY <1>11, <1>12, <1>13 DEF OneAtATime

LEMMA TrafficHostQuery ==
  ASSUME TypeInv, TrafficInv, ForwardHostQuery
  PROVE  TrafficInv'
  <1>1. /\ inbox # <<>> /\ inbox' = Tail(inbox) /\ UNCHANGED <<clients, owner, clientVars>>
        /\ nextToken' = nextToken + 1 /\ surprised' = surprised
    BY HostQueryIs DEF history
  <1>2. SUFFICES ASSUME ~surprised, Numbered, OneAtATime PROVE Numbered' /\ OneAtATime'
    BY <1>1 DEF TrafficInv
  <1>3. /\ inbox \in Seq(Messages) /\ waiting \in Seq(Forwards) /\ nextToken \in Nat
        /\ (forward = <<>> => waiting = <<>>)
    BY TrafficTypes
  <1>4. Replies(inbox') \subseteq Replies(inbox)
    BY <1>1, <1>3, RepliesTaken
  <1>5. PICK f \in Forwards :
          /\ f.token = nextToken
          /\ \/ /\ forward # <<>> /\ waiting' = Append(waiting, f)
                /\ UNCHANGED <<forward, server, timers>>
             \/ forward = <<>> /\ Dispatch(f) /\ waiting' = waiting
    BY HostQueryIs
  <1>6. CASE forward # <<>> /\ waiting' = Append(waiting, f) /\ UNCHANGED <<forward, server, timers>>
    <2>1. OneAtATime'
      BY <1>1, <1>2, <1>4, <1>6, OneStays
    <2>2. \A n : UpTo(n) => UpTo(n)'
      BY <1>1, <1>4, <1>6, UpToStays
    <2>3. /\ Len(waiting') = Len(waiting) + 1 /\ Len(waiting) \in Nat
          /\ \A i \in 1 .. Len(waiting') :
               (i \in 1 .. Len(waiting) /\ waiting'[i] = waiting[i])
               \/ (i = Len(waiting) + 1 /\ waiting'[i] = f)
          /\ \A i \in 1 .. Len(waiting) : waiting[i].token \in Nat
      <3>1. \A i \in 1 .. Len(waiting) : waiting[i] \in Forwards
        BY <1>3
      <3>2. \A i \in 1 .. Len(waiting) : waiting[i].token \in Nat
        BY <3>1, OwnAnswers2
      <3>3. /\ Len(waiting') = Len(waiting) + 1 /\ Len(waiting) \in Nat
            /\ \A i \in 1 .. Len(waiting) : waiting'[i] = waiting[i]
            /\ waiting'[Len(waiting) + 1] = f
        BY <1>3, <1>6
      <3>4. \A i \in 1 .. Len(waiting') : i \in 1 .. Len(waiting) \/ i = Len(waiting) + 1
        BY <3>3
      <3>q. QED
        BY <3>2, <3>3, <3>4
    <2>4. /\ \A i \in 1 .. Len(waiting) : waiting[i].token < nextToken
          /\ \A i, j \in 1 .. Len(waiting) : i < j => waiting[i].token < waiting[j].token
          /\ \A g \in Forwards : forward = <<g>> =>
               /\ UpTo(g.token) /\ g.token < nextToken
               /\ \A i \in 1 .. Len(waiting) : g.token < waiting[i].token
      BY <1>2 DEF Numbered
    <2>5. \A i \in 1 .. Len(waiting') : waiting'[i].token < nextToken'
      BY <1>1, <1>3, <1>5, <2>3, <2>4
    <2>6. ASSUME NEW i \in 1 .. Len(waiting'), NEW j \in 1 .. Len(waiting'), i < j
          PROVE  waiting'[i].token < waiting'[j].token
      <3>1. i \in 1 .. Len(waiting) /\ waiting'[i] = waiting[i]
        BY <2>3, <2>6
      <3>2. CASE j \in 1 .. Len(waiting) /\ waiting'[j] = waiting[j]
        BY <2>4, <2>6, <3>1, <3>2
      <3>3. CASE waiting'[j] = f
        BY <1>5, <2>4, <3>1, <3>3
      <3>q. QED
        BY <2>3, <3>2, <3>3
    <2>7. ASSUME NEW g \in Forwards, forward' = <<g>>
          PROVE  /\ UpTo(g.token)' /\ g.token < nextToken'
                 /\ \A i \in 1 .. Len(waiting') : g.token < waiting'[i].token
      <3>1. forward = <<g>> /\ g.token \in Nat
        BY <1>6, <2>7, OwnAnswers2
      <3>2. UpTo(g.token)' /\ g.token < nextToken
        BY <2>2, <2>4, <3>1
      <3>3. \A i \in 1 .. Len(waiting') : g.token < waiting'[i].token
        BY <1>5, <2>3, <2>4, <3>1, <3>2
      <3>q. QED
        BY <1>1, <1>3, <3>1, <3>2, <3>3
    <2>8. forward' # <<>>
      BY <1>6
    <2>q. QED
      BY <2>1, <2>5, <2>6, <2>7, <2>8 DEF Numbered
  <1>7. CASE forward = <<>> /\ Dispatch(f) /\ waiting' = waiting
    <2>1. PICK n \in Nat : n + 1 = nextToken
      <3>1. nextToken - 1 \in Nat /\ (nextToken - 1) + 1 = nextToken
        BY TrafficTypes
      <3>q. QED
        BY <3>1
    <2>2. UpTo(n) /\ ~(f.token <= n) /\ n <= f.token /\ f.token \in Nat
      BY <1>2, <1>5, <1>7, <2>1 DEF Numbered
    <2>3. Unanswered(f) /\ \A c \in Clients : <<f.token, c>> \notin owner
      BY <2>2 DEF UpTo, Unanswered
    <2>4. Quiet
      BY <1>2, <1>7 DEF OneAtATime
    <2>5. OneAtATime'
      BY <1>1, <1>4, <1>7, <2>3, <2>4, Dispatched
    <2>6. waiting' = <<>> /\ forward' = <<f>> /\ timers' = timers \cup {f.token}
      BY <1>3, <1>7 DEF Dispatch
    <2>7. UpTo(f.token)'
      <3>1. Replies(inbox)' = Replies(inbox')
        BY DEF Replies
      <3>2. \A m \in Replies(inbox) : m.token \in Nat
        <4>1. \A m \in Replies(inbox) : m \in Messages /\ m.what = "reply"
          BY <1>3, RepliesIn
        <4>q. QED
          BY <4>1 DEF Messages
      <3>3. \A m \in Replies(inbox) : m.token <= f.token
        BY <2>1, <2>2, <3>2 DEF UpTo
      <3>4. \A t \in timers : t \in Nat /\ t <= f.token
        BY <2>1, <2>2, TrafficTypes DEF UpTo
      <3>5. \A t \in Nat, c \in Clients : <<t, c>> \in owner => t <= f.token
        BY <2>1, <2>2 DEF UpTo
      <3>q. QED
        BY <1>1, <1>4, <2>2, <2>6, <3>1, <3>3, <3>4, <3>5 DEF UpTo
    <2>8. f.token < nextToken'
      BY <1>1, <1>3, <1>5
    <2>9. \A g \in Forwards : forward' = <<g>> => g = f
      BY <2>6
    <2>10. forward' # <<>> /\ Len(waiting') = 0
      BY <2>6
    <2>q. QED
      BY <2>5, <2>7, <2>8, <2>9, <2>10 DEF Numbered
  <1>q. QED
    BY <1>5, <1>6, <1>7

LEMMA TrafficReply ==
  ASSUME TypeInv, TrafficInv, HandleForwardedReply
  PROVE  TrafficInv'
  <1>1. /\ inbox # <<>> /\ Head(inbox).what = "reply"
        /\ UNCHANGED <<nextToken, clients, owner, clientVars>> /\ surprised' = surprised
    BY ForwardedReplyIs DEF history
  <1>2. SUFFICES ASSUME ~surprised, Numbered, OneAtATime PROVE Numbered' /\ OneAtATime'
    BY <1>1 DEF TrafficInv
  <1>3. /\ inbox \in Seq(Messages) /\ waiting \in Seq(Forwards) /\ nextToken \in Nat
    BY TrafficTypes
  <1>4. Replies(Tail(inbox)) \subseteq Replies(inbox) /\ Head(inbox) \in Replies(inbox)
    BY <1>1, <1>3, RepliesTaken
  <1>5. CASE inbox' = Tail(inbox) /\ UNCHANGED <<forward, waiting, server, timers>>
    BY <1>1, <1>2, <1>4, <1>5, OneStays, UpToStays, NumberedStays
  <1>6. ASSUME NEW f \in Forwards, NEW a, f.token = Head(inbox).token, Replied(f, a)
        PROVE  Numbered' /\ OneAtATime'
    <2>1. forward = <<f>> /\ Resumes(f.query.pane, a, Tail(inbox))
      BY <1>6 DEF Replied
    <2>2. Replies(inbox') \subseteq Replies(inbox)
      BY <1>4, <2>1, ResumesReplies
    <2>3. Quiet
      <3>1. AtOnePlace(f)
        BY <1>2, <2>1 DEF OneAtATime
      <3>2. ~Unanswered(f)
        BY <1>4, <1>6 DEF Unanswered
      <3>q. QED
        BY <3>1, <3>2 DEF AtOnePlace
    <2>4. /\ UpTo(f.token) /\ f.token < nextToken /\ f.token \in Nat
          /\ \A i \in 1 .. Len(waiting) : f.token < waiting[i].token
          /\ \A i \in 1 .. Len(waiting) : waiting[i].token < nextToken
          /\ \A i, j \in 1 .. Len(waiting) : i < j => waiting[i].token < waiting[j].token
      BY <1>2, <2>1, OwnAnswers2 DEF Numbered
    <2>5. /\ \A m \in Replies(inbox) : m.token \in Nat /\ m.token <= f.token
          /\ \A t \in timers : t \in Nat /\ t <= f.token
          /\ \A t \in Nat, c \in Clients : <<t, c>> \in owner => t <= f.token
      <3>1. \A m \in Replies(inbox) : m \in Messages /\ m.what = "reply"
        BY <1>3, RepliesIn
      <3>2. \A m \in Replies(inbox) : m.token \in Nat
        BY <3>1 DEF Messages
      <3>q. QED
        BY <2>4, <3>2, TrafficTypes DEF UpTo
    <2>6. Replies(inbox)' = Replies(inbox')
      BY DEF Replies
    <2>7. CASE forward' = <<>> /\ waiting = <<>> /\ UNCHANGED <<waiting, server, timers>>
      <3>1. Quiet'
        <4>1. \A d : Same(d)
          BY <1>1 DEF Same, clientVars
        <4>q. QED
          BY <2>3, <2>7, <4>1, SameIdle, ServerStays DEF Quiet
      <3>2. forward' = <<>> /\ \A g \in Forwards : forward' # <<g>>
        BY <2>7
      <3>3. ASSUME NEW n \in Nat, n + 1 = nextToken' PROVE UpTo(n)'
        <4>1. f.token <= n
          BY <1>1, <1>3, <2>4, <3>3
        <4>2. \A m \in Replies(inbox) : m.token <= n
          BY <2>4, <2>5, <4>1
        <4>3. \A t \in timers : t <= n
          BY <2>4, <2>5, <4>1
        <4>4. \A t \in Nat, c \in Clients : <<t, c>> \in owner => t <= n
          BY <2>4, <2>5, <4>1
        <4>q. QED
          BY <1>1, <2>2, <2>6, <2>7, <4>2, <4>3, <4>4 DEF UpTo
      <3>4. Len(waiting') = 0
        BY <2>7
      <3>q. QED
        BY <3>1, <3>2, <3>3, <3>4 DEF Numbered, OneAtATime
    <2>8. ASSUME NEW g \in Forwards, waiting # <<>>, g = Head(waiting), Dispatch(g),
                 waiting' = Tail(waiting)
          PROVE  Numbered' /\ OneAtATime'
      <3>1. /\ g.token \in Nat /\ forward' = <<g>> /\ timers' = timers \cup {g.token}
        BY <2>8, OwnAnswers2 DEF Dispatch
      <3>2. /\ 1 \in 1 .. Len(waiting) /\ g = waiting[1] /\ Len(waiting) \in Nat
            /\ Len(waiting') = Len(waiting) - 1
            /\ \A i \in 1 .. Len(waiting') : /\ i + 1 \in 1 .. Len(waiting) /\ 1 < i + 1
                                             /\ waiting'[i] = waiting[i + 1]
        BY <1>3, <2>8
      <3>3. f.token < g.token /\ g.token < nextToken'
        BY <1>1, <2>4, <3>2
      <3>4. Unanswered(g) /\ \A c \in Clients : <<g.token, c>> \notin owner
        <4>1. \A t \in Nat : t <= f.token => t # g.token
          BY <2>4, <3>1, <3>3
        <4>q. QED
          BY <2>5, <3>1, <4>1 DEF Unanswered
      <3>5. OneAtATime'
        BY <1>1, <2>2, <2>3, <2>8, <3>4, Dispatched
      <3>6. UpTo(g.token)'
        <4>1. \A t \in Nat : t <= f.token => t <= g.token
          BY <2>4, <3>1, <3>3
        <4>2. g.token <= g.token
          BY <3>1
        <4>q. QED
          BY <1>1, <2>2, <2>5, <2>6, <3>1, <4>1, <4>2 DEF UpTo
      <3>7. \A i \in 1 .. Len(waiting') : /\ waiting'[i].token < nextToken'
                                          /\ g.token < waiting'[i].token
        BY <1>1, <2>4, <3>2
      <3>8. \A i, j \in 1 .. Len(waiting') : i < j => waiting'[i].token < waiting'[j].token
        <4>1. ASSUME NEW i \in 1 .. Len(waiting'), NEW j \in 1 .. Len(waiting'), i < j
              PROVE  waiting'[i].token < waiting'[j].token
          <5>1. i + 1 < j + 1
            BY <4>1
          <5>q. QED
            BY <2>4, <3>2, <5>1
        <4>q. QED
          BY <4>1
      <3>9. \A h \in Forwards : forward' = <<h>> => h = g
        BY <3>1
      <3>10. forward' # <<>>
        BY <3>1
      <3>q. QED
        BY <3>3, <3>5, <3>6, <3>7, <3>8, <3>9, <3>10 DEF Numbered
    <2>q. QED
      BY <1>6, <2>7, <2>8 DEF Replied
  <1>q. QED
    BY <1>5, <1>6, ForwardedReplyIs

\* What the main loop takes from its channel.
LEMMA TrafficRelays ==
  ASSUME TypeInv, TrafficInv, ForwardQueryToHost
  PROVE  TrafficInv'
  <1>1. /\ server # <<>> /\ server' = Tail(server) /\ surprised' = surprised
        /\ UNCHANGED <<forward, waiting, nextToken, timers>>
    BY ToHostIs DEF history, forwardVars
  <1>2. SUFFICES ASSUME ~surprised, Numbered, OneAtATime PROVE Numbered' /\ OneAtATime'
    BY <1>1 DEF TrafficInv
  <1>3. PICK h \in Forwards : Head(server) = [what |-> "forward", to |-> h] /\ Relays(h)
    BY ToHostIs
  <1>4. PICK m : m = Head(server)
    OBVIOUS
  <1>5. m \in Forwarding /\ m.to = h
    BY <1>3, <1>4, ServedIs
  <1>6. server \in Seq(Served) /\ inbox \in Seq(Messages)
    BY TrafficTypes
  <1>7. PICK T : T = Forwarding
    OBVIOUS
  <1>8. ~ServerIdle
    <2>1. Clear(server, T) => m \notin T
      BY <1>1, <1>4, <1>6, Taking
    <2>q. QED
      BY <1>5, <1>7, <2>1 DEF ServerIdle
  <1>9. forward # <<>>
    BY <1>2, <1>8 DEF OneAtATime, Quiet
  <1>10. PICK f \in Forwards : forward = <<f>>
    BY <1>9, ForwardIs
  <1>11. Unanswered(f) /\ AtServer(f)
    BY <1>2, <1>8, <1>10 DEF OneAtATime, AtOnePlace, Quiet, AtClient
  <1>12. f = h /\ Clear(server', T)
    <2>1. PICK y : y = [what |-> "forward", to |-> f]
      OBVIOUS
    <2>2. y \in T /\ y.to = f
      BY <1>7, <2>1, ServedIs
    <2>3. Sole(server, T, y)
      BY <1>7, <1>11, <2>1 DEF AtServer
    <2>4. (m = y /\ Clear(server', T)) \/ m \notin T
      BY <1>1, <1>4, <1>6, <2>2, <2>3, Taking
    <2>q. QED
      BY <1>5, <1>7, <2>2, <2>4
  <1>13. Forwarding' = Forwarding
    BY DEF Forwarding, Forwards
  <1>14. ServerIdle'
    BY <1>7, <1>12, <1>13 DEF ServerIdle, Clear
  <1>15. \A c \in Clients : Idle(c) /\ <<f.token, c>> \notin owner
    BY <1>11 DEF AtServer
  <1>16. UpTo(f.token) /\ f.token \in Nat /\ (\A g \in Forwards : forward' = <<g>> => g = f)
         /\ forward' # <<>>
    BY <1>1, <1>2, <1>10, OwnAnswers2 DEF Numbered
  <1>17. ASSUME NEW c \in Clients, owner' = owner \cup {<<f.token, c>>}, inbox' = inbox,
                OthersSame(c), kind'[c] = kind[c], slot'[c] = slot[c], host'[c] = host[c],
                outbound'[c] = outbound[c],
                \/ kind[c] = "none" /\ inbound'[c] = inbound[c]
                \/ kind[c] # "none" /\ inbound'[c] = Append(inbound[c], f)
         PROVE  Numbered' /\ OneAtATime'
    <2>1. \A d \in Clients \ {c} : Idle(d)' /\ <<f.token, d>> \notin owner'
      BY <1>15, <1>17, SameIdle DEF OthersSame
    <2>2. Unanswered(f)'
      BY <1>11, <1>17, RepliesStay
    <2>3. /\ slot'[c] = <<>> /\ host'[c] = <<>> /\ Clear(outbound'[c], Replying')
          /\ kind[c] = "old" \/ inbound[c] = <<>>
      <3>1. Replying' = Replying
        BY DEF Replying
      <3>q. QED
        BY <1>15, <1>17, <3>1 DEF Idle
    <2>4. Idle(c)' \/ Asking(c, f)'
      <3>1. CASE inbound'[c] = inbound[c]
        BY <1>17, <2>3, <3>1 DEF Idle, Clear
      <3>2. CASE kind[c] = "old"
        BY <1>17, <2>3, <3>2 DEF Idle, Clear
      <3>3. CASE kind[c] # "old" /\ inbound'[c] = Append(inbound[c], f)
        <4>1. Append(<<>>, f) = <<f>>
          OBVIOUS
        <4>2. inbound'[c] = <<f>> /\ kind'[c] # "old"
          BY <1>17, <2>3, <3>3, <4>1
        <4>q. QED
          BY <2>3, <4>2 DEF Asking, Clear
      <3>q. QED
        BY <1>17, <3>1, <3>2, <3>3
    <2>5. AtOnePlace(f)'
      <3>1. Idle(c)' => Quiet'
        BY <1>14, <2>1 DEF Quiet
      <3>2. Asking(c, f)' => AtClient(c, f)'
        BY <1>14, <2>1 DEF AtClient, Busy
      <3>3. OnlyOwn(f)'
        BY <2>2 DEF Unanswered, OnlyOwn
      <3>q. QED
        BY <2>2, <2>4, <3>1, <3>2, <3>3 DEF AtOnePlace
    <2>6. OneAtATime'
      BY <1>16, <2>5 DEF OneAtATime
    <2>7. UpTo(f.token)'
      <3>1. Replies(inbox)' = Replies(inbox)
        BY <1>17 DEF Replies
      <3>2. f.token <= f.token
        BY <1>16
      <3>3. \A t \in Nat, d \in Clients : <<t, d>> \in owner' => t <= f.token
        <4>1. \A t, d : <<t, d>> \in owner' => <<t, d>> \in owner \/ t = f.token
          BY <1>17
        <4>q. QED
          BY <1>16, <3>2, <4>1 DEF UpTo
      <3>q. QED
        BY <1>1, <1>16, <3>1, <3>3 DEF UpTo
    <2>8. Numbered'
      BY <1>1, <1>2, <1>10, <1>16, <2>7 DEF Numbered
    <2>q. QED
      BY <2>6, <2>8
  <1>18. CASE inbox' = Append(inbox, Reply(f.token, <<>>)) /\ UNCHANGED <<owner, clientVars>>
    <2>1. PICK r : r = Reply(f.token, <<>>)
      OBVIOUS
    <2>2. <<>> \in OwnAnswer(f) /\ <<>> \in Seq(Units)
      BY OwnAnswers2
    <2>3. r \in Messages /\ r.token = f.token /\ r.answers \in OwnAnswer(f)
      <3>1. r \in Messages /\ r.token = f.token /\ r.answers = <<>>
        <4>1. PICK t \in Nat, a \in Seq(Units) : t = f.token /\ a = <<>>
          BY <1>16, <2>2
        <4>2. r = Reply(t, a)
          BY <2>1, <4>1, Zenon
        <4>3. r \in Messages /\ r.token = t /\ r.answers = a
          BY <4>2, ReplyIs
        <4>q. QED
          BY <4>1, <4>3
      <3>q. QED
        BY <2>2, <3>1
    <2>4. PICK u : u = inbox'
      OBVIOUS
    <2>5. u = Append(inbox, r)
      BY <1>18, <2>1, <2>4
    <2>6. Replies(u) \subseteq Replies(inbox) \cup {r}
      BY <1>6, <2>3, <2>5, RepliesAppended
    <2>7. Replies(inbox)' \subseteq Replies(inbox) \cup {r}
      BY <2>4, <2>6 DEF Replies
    <2>8. OnlyOwn(f)'
      <3>1. OwnAnswer(f)' = OwnAnswer(f)
        BY DEF OwnAnswer
      <3>q. QED
        BY <1>11, <2>3, <2>7, <3>1 DEF Unanswered, OnlyOwn
    <2>9. Quiet'
      <3>1. \A d : Same(d)
        BY <1>18 DEF Same, clientVars
      <3>q. QED
        BY <1>14, <1>15, <3>1, SameIdle DEF Quiet
    <2>10. OneAtATime'
      BY <1>16, <2>8, <2>9 DEF OneAtATime, AtOnePlace
    <2>11. UpTo(f.token)'
      <3>1. r.token <= f.token
        BY <1>16, <2>3
      <3>q. QED
        BY <1>1, <1>16, <1>18, <2>7, <3>1 DEF UpTo
    <2>12. Numbered'
      BY <1>1, <1>2, <1>10, <1>16, <2>11 DEF Numbered
    <2>q. QED
      BY <2>10, <2>12
  <1>q. QED
    BY <1>3, <1>12, <1>17, <1>18 DEF Relays

\* The server's timer, a client that is removed and the route of a reply add
\* replies to the channel of Screen; what matters of the rest stays.
Adds(r) ==
  /\ r \in Seq(Messages) /\ inbox' = inbox \o r
  /\ UNCHANGED <<forward, waiting, nextToken>> /\ timers' \subseteq timers /\ owner' \subseteq owner

LEMMA AddsReplies ==
  ASSUME TypeInv, Numbered, NEW r, Adds(r),
         \A n \in Nat : UpTo(n) /\ (\A f \in Forwards : forward = <<f>> => n = f.token)
            => \A m \in Replies(r) : m.token <= n
  PROVE  Numbered' /\ Replies(inbox)' \subseteq Replies(inbox) \cup Replies(r)
  <1>1. PICK u : u = inbox'
    OBVIOUS
  <1>2. Replies(u) \subseteq Replies(inbox) \cup Replies(r)
    BY <1>1, RepliesJoined, TrafficTypes DEF Adds
  <1>3. Replies(inbox)' \subseteq Replies(inbox) \cup Replies(r)
    BY <1>1, <1>2 DEF Replies
  <1>4. ASSUME NEW n \in Nat, UpTo(n), ~\E f \in Forwards : forward = <<f>> /\ n # f.token
        PROVE  UpTo(n)'
    BY <1>3, <1>4 DEF UpTo, Adds
  <1>5. Numbered'
    BY <1>4, NumberedStays DEF Adds
  <1>q. QED
    BY <1>3, <1>5

LEMMA AppendAdds ==
  ASSUME TypeInv, NEW t \in Nat, NEW a \in Seq(Units), inbox' = Append(inbox, Reply(t, a))
  PROVE  \E r \in Seq(Messages) :
           /\ inbox' = inbox \o r
           /\ \A m \in Replies(r) : m.token = t /\ m.answers = a
  <1>1. PICK m : m = Reply(t, a)
    OBVIOUS
  <1>2. m \in Messages /\ m.token = t /\ m.answers = a
    BY <1>1, ReplyIs
  <1>3. inbox \in Seq(Messages)
    BY TrafficTypes
  <1>4. <<m>> \in Seq(Messages) /\ inbox \o <<m>> = Append(inbox, m)
        /\ Len(<<m>>) = 1 /\ <<m>>[1] = m
    BY <1>2, <1>3
  <1>5. \A x \in Replies(<<m>>) : x = m
    BY <1>4 DEF Replies
  <1>6. inbox' = inbox \o <<m>>
    BY <1>1, <1>4
  <1>q. QED
    BY <1>2, <1>4, <1>5, <1>6, Zenon

LEMMA TrafficTimer ==
  ASSUME TypeInv, TrafficInv, NEW t \in timers, ServerTimer(t)
  PROVE  TrafficInv'
  <1>1. /\ timers' \subseteq timers /\ t \in Nat
        /\ inbox' = Append(inbox, Reply(t, <<>>))
        /\ UNCHANGED <<forward, waiting, nextToken, server, owner, clientVars>>
    BY TimerIs DEF serverVars
  <1>2. SUFFICES ASSUME ~surprised' PROVE Numbered' /\ OneAtATime'
    BY DEF TrafficInv
  <1>3. ~surprised /\ ~OnItsWay(t)
    BY <1>2, TimerIs
  <1>4. Numbered /\ OneAtATime
    BY <1>3 DEF TrafficInv
  <1>5. <<>> \in Seq(Units)
    OBVIOUS
  <1>6. PICK r \in Seq(Messages) : /\ inbox' = inbox \o r
                                   /\ \A m \in Replies(r) : m.token = t /\ m.answers = <<>>
    BY <1>1, <1>5, AppendAdds
  <1>7. Numbered' /\ Replies(inbox)' \subseteq Replies(inbox) \cup Replies(r)
    <2>1. Adds(r)
      BY <1>1, <1>6 DEF Adds
    <2>2. \A n \in Nat : UpTo(n) => \A m \in Replies(r) : m.token <= n
      BY <1>6 DEF UpTo
    <2>q. QED
      BY <1>4, <2>1, <2>2, AddsReplies
  <1>8. /\ ServerIdle' <=> ServerIdle
        /\ \A d \in Clients : (Idle(d)' <=> Idle(d)) /\ \A f : Busy(d, f)' <=> Busy(d, f)
    <2>1. \A d : Same(d)
      BY <1>1 DEF Same, clientVars
    <2>q. QED
      BY <1>1, <2>1, SameIdle, ServerStays
  <1>9. ASSUME NEW f \in Forwards, AtOnePlace(f) PROVE AtOnePlace(f)'
    <2>1. OnlyOwn(f) => OnlyOwn(f)'
      <3>1. OwnAnswer(f)' = OwnAnswer(f) /\ <<>> \in OwnAnswer(f)
        BY DEF OwnAnswer
      <3>q. QED
        BY <1>6, <1>7, <3>1 DEF OnlyOwn
    <2>2. t # f.token /\ Unanswered(f) => Unanswered(f)'
      BY <1>6, <1>7 DEF Unanswered
    <2>3. ASSUME AtServer(f) PROVE t # f.token /\ AtServer(f)'
      <3>1. t # f.token
        <4>1. PICK k \in 1 .. Len(server) : server[k] = [what |-> "forward", to |-> f]
          BY <2>3 DEF AtServer, Sole
        <4>2. server[k].what = "forward" /\ server[k].to.token = f.token
          BY <4>1
        <4>q. QED
          BY <1>3, <4>1, <4>2 DEF OnItsWay
      <3>2. AtServer(f)'
        BY <1>1, <1>8, <2>3, ServerStays DEF AtServer
      <3>q. QED
        BY <3>1, <3>2
    <2>4. ASSUME NEW c \in Clients, AtClient(c, f) PROVE t # f.token /\ AtClient(c, f)'
      <3>1. Busy(c, f) => OnItsWay(f.token)
        <4>1. ASSUME Asking(c, f) PROVE OnItsWay(f.token)
          <5>1. 1 \in 1 .. Len(inbound[c]) /\ inbound[c][1] = f /\ kind[c] # "old"
            BY <4>1 DEF Asking
          <5>q. QED
            BY <5>1 DEF OnItsWay
        <4>2. ASSUME Capturing(c, f) PROVE OnItsWay(f.token)
          <5>1. PICK a : slot[c] = <<[token |-> f.token, answers |-> a]>>
            BY <4>2 DEF Capturing
          <5>2. 1 \in 1 .. Len(slot[c]) /\ slot[c][1].token = f.token
            BY <5>1
          <5>q. QED
            BY <5>2 DEF OnItsWay
        <4>3. ASSUME Answering(c, f) PROVE OnItsWay(f.token)
          <5>1. PICK a \in OwnAnswer(f) : Sole(outbound[c], Replying, Reply(f.token, a))
            BY <4>3 DEF Answering
          <5>2. PICK k \in 1 .. Len(outbound[c]) : outbound[c][k] = Reply(f.token, a)
            BY <5>1 DEF Sole
          <5>3. outbound[c][k].token = f.token
            BY <5>2 DEF Reply
          <5>q. QED
            BY <5>3 DEF OnItsWay
        <4>q. QED
          BY <4>1, <4>2, <4>3 DEF Busy
      <3>q. QED
        BY <1>1, <1>3, <1>8, <2>4, <3>1 DEF AtClient
    <2>5. Quiet => Quiet'
      BY <1>8 DEF Quiet
    <2>q. QED
      BY <1>9, <2>1, <2>2, <2>3, <2>4, <2>5 DEF AtOnePlace
  <1>q. QED
    BY <1>1, <1>4, <1>7, <1>8, <1>9 DEF OneAtATime, Quiet

LEMMA TrafficRemove ==
  ASSUME TypeInv, Farewell, TrafficInv, RemoveClient
  PROVE  TrafficInv'
  <1>1. /\ server # <<>> /\ server' = Tail(server) /\ surprised' = surprised
        /\ UNCHANGED <<forward, waiting, nextToken, timers, clientVars>>
    BY RemoveIs DEF history, forwardVars
  <1>2. SUFFICES ASSUME ~surprised, Numbered, OneAtATime PROVE Numbered' /\ OneAtATime'
    BY <1>1 DEF TrafficInv
  <1>3. PICK c \in Clients : Removes(c)
    BY RemoveIs
  <1>4. PICK r \in Seq(Messages) :
          /\ inbox' = inbox \o r
          /\ \A i \in 1 .. Len(r) : /\ r[i].what = "reply" /\ r[i].answers = <<>>
                                    /\ <<r[i].token, c>> \in owner
    BY <1>3 DEF Removes
  <1>5. owner' \subseteq owner /\ owner \subseteq Nat \X Clients
    BY <1>3, TrafficTypes DEF Removes
  <1>6. \A m \in Replies(r) : m.answers = <<>> /\ <<m.token, c>> \in owner
    BY <1>4, RepliesIn
  <1>7. Numbered' /\ Replies(inbox)' \subseteq Replies(inbox) \cup Replies(r)
    <2>1. Adds(r)
      BY <1>1, <1>4, <1>5 DEF Adds
    <2>2. \A n \in Nat : UpTo(n) => \A m \in Replies(r) : m.token <= n
      <3>1. \A m \in Replies(r) : m.token \in Nat
        BY <1>5, <1>6
      <3>q. QED
        BY <1>6, <3>1 DEF UpTo
    <2>q. QED
      BY <1>2, <2>1, <2>2, AddsReplies
  <1>8. \A d \in Clients : (Idle(d)' <=> Idle(d)) /\ \A f : Busy(d, f)' <=> Busy(d, f)
    <2>1. \A d : Same(d)
      BY <1>1 DEF Same, clientVars
    <2>q. QED
      BY <2>1, SameIdle
  <1>9. server \in Seq(Served)
    BY TrafficTypes
  <1>10. PICK T : T = Forwarding
    OBVIOUS
  <1>11. Forwarding' = T
    BY <1>10 DEF Forwarding, Forwards
  <1>12. Head(server) \in Served /\ Head(server) \notin T
    <2>1. PICK m : m = Head(server)
      OBVIOUS
    <2>2. m \in Served
      BY <1>1, <1>9, <2>1
    <2>3. m \in Removals(c)
      BY <1>3, <2>1 DEF Removes
    <2>4. m \notin Forwarding
      BY <2>2, <2>3, ServedKinds
    <2>q. QED
      BY <1>10, <2>1, <2>2, <2>4
  <1>13. /\ ServerIdle => ServerIdle'
         /\ \A f \in Forwards : Sole(server, Forwarding, [what |-> "forward", to |-> f])
              => Sole(server, Forwarding, [what |-> "forward", to |-> f])'
    <2>1. PICK u : u = server'
      OBVIOUS
    <2>2. Clear(server, T) => Clear(u, T)
      BY <1>1, <1>9, <2>1, Taking
    <2>3. ASSUME NEW f \in Forwards, Sole(server, T, [what |-> "forward", to |-> f])
          PROVE  Sole(u, T, [what |-> "forward", to |-> f])
      <3>1. PICK y : y = [what |-> "forward", to |-> f]
        OBVIOUS
      <3>2. y \in T
        BY <1>10, <3>1, ServedIs
      <3>3. Sole(server, T, y)
        BY <2>3, <3>1
      <3>4. Sole(u, T, y) \/ Head(server) = y
        BY <1>1, <1>9, <2>1, <3>2, <3>3, Taking
      <3>q. QED
        BY <1>12, <3>1, <3>2, <3>4
    <2>4. ServerIdle => ServerIdle'
      BY <1>10, <1>11, <2>1, <2>2 DEF ServerIdle, Clear
    <2>5. ASSUME NEW f \in Forwards, Sole(server, Forwarding, [what |-> "forward", to |-> f])
          PROVE  Sole(server, Forwarding, [what |-> "forward", to |-> f])'
      BY <1>10, <1>11, <2>1, <2>3, <2>5 DEF Sole
    <2>q. QED
      BY <2>4, <2>5
  \* the client that is removed has nothing
  <1>14. ~ \E f \in Forwards : Busy(c, f)
    <2>1. kind[c] = "none" /\ outbound[c] = <<>>
      <3>1. PICK S : S = Removals(c)
        OBVIOUS
      <3>2. ~Clear(server, S)
        <4>1. Clear(server, S) => Head(server) \notin S
          BY <1>1, <1>9, Taking
        <4>q. QED
          BY <1>3, <3>1, <4>1 DEF Removes
      <3>q. QED
        BY <3>1, <3>2 DEF Farewell, FarewellAt
    <2>2. inbound[c] = <<>> /\ slot[c] = <<>>
      BY <2>1 DEF Farewell, FarewellAt
    <2>3. ASSUME NEW f \in Forwards, Busy(c, f) PROVE FALSE
      <3>1. ~Asking(c, f) /\ ~Capturing(c, f)
        <4>1. inbound[c] # <<f>>
          BY <2>2
        <4>q. QED
          BY <2>1, <4>1 DEF Asking, Capturing
      <3>2. ~Answering(c, f)
        BY <2>1 DEF Answering, Sole
      <3>q. QED
        BY <2>3, <3>1, <3>2 DEF Busy
    <2>q. QED
      BY <2>3
  <1>15. ASSUME NEW f \in Forwards, AtOnePlace(f) PROVE AtOnePlace(f)'
    <2>1. OnlyOwn(f) => OnlyOwn(f)'
      <3>1. OwnAnswer(f)' = OwnAnswer(f) /\ <<>> \in OwnAnswer(f)
        BY DEF OwnAnswer
      <3>q. QED
        BY <1>6, <1>7, <3>1 DEF OnlyOwn
    <2>2. <<f.token, c>> \notin owner /\ Unanswered(f) => Unanswered(f)'
      <3>1. <<f.token, c>> \notin owner => \A m \in Replies(r) : m.token # f.token
        BY <1>6
      <3>q. QED
        BY <1>7, <3>1 DEF Unanswered
    <2>3. ASSUME AtServer(f) PROVE <<f.token, c>> \notin owner /\ AtServer(f)'
      <3>1. Sole(server, Forwarding, [what |-> "forward", to |-> f])'
        BY <1>13, <2>3 DEF AtServer
      <3>2. \A d \in Clients : Idle(d)' /\ <<f.token, d>> \notin owner'
        BY <1>5, <1>8, <2>3 DEF AtServer
      <3>q. QED
        BY <2>3, <3>1, <3>2 DEF AtServer
    <2>4. ASSUME NEW d \in Clients, AtClient(d, f)
          PROVE  <<f.token, c>> \notin owner /\ AtClient(d, f)'
      <3>1. d # c
        BY <1>14, <2>4 DEF AtClient
      <3>2. \A e \in Clients \ {d} : Idle(e)' /\ <<f.token, e>> \notin owner'
        BY <1>5, <1>8, <2>4 DEF AtClient
      <3>3. ServerIdle' /\ Busy(d, f)'
        BY <1>8, <1>13, <2>4 DEF AtClient
      <3>q. QED
        BY <2>4, <3>1, <3>2, <3>3 DEF AtClient
    <2>5. Quiet => Quiet'
      BY <1>8, <1>13 DEF Quiet
    <2>q. QED
      BY <1>15, <2>1, <2>2, <2>3, <2>4, <2>5 DEF AtOnePlace
  <1>q. QED
    BY <1>1, <1>2, <1>7, <1>8, <1>13, <1>15 DEF OneAtATime, Quiet

\* The end of a connection is passed on: nothing moves.
LEMMA TrafficBye ==
  ASSUME TypeInv, TrafficInv, NEW c \in Clients, NEW m \in Byes, Routes(c, m),
         outbound[c] # <<>>, OthersSame(c),
         UNCHANGED <<forward, waiting, nextToken, timers, surprised>>
  PROVE  TrafficInv'
  <1>1. SUFFICES ASSUME ~surprised, Numbered, OneAtATime PROVE Numbered' /\ OneAtATime'
    BY DEF TrafficInv
  <1>2. /\ owner' = owner /\ inbox' = inbox /\ m = Head(outbound[c]) /\ m \notin Replying
        /\ outbound'[c] = Tail(outbound[c]) /\ kind'[c] = kind[c] /\ inbound'[c] = inbound[c]
        /\ slot'[c] = slot[c] /\ host'[c] = host[c]
        /\ server' = Append(server, [what |-> "remove", client |-> c])
    BY OutboundKinds DEF Routes
  <1>3. outbound[c] \in Seq(Outbound) /\ server \in Seq(Served)
    BY TrafficTypes
  <1>4. Replies(inbox') \subseteq Replies(inbox)
    BY <1>2
  <1>5. Numbered'
    BY <1>1, <1>2, <1>4, NumberedStays, UpToStays
  <1>6. PICK T, u : T = Replying /\ u = outbound'[c]
    OBVIOUS
  <1>7. Replying' = Replying
    BY DEF Replying
  <1>8. Idle(c) => Idle(c)'
    <2>1. Clear(outbound[c], T) => Clear(u, T)
      BY <1>2, <1>3, <1>6, Taking
    <2>q. QED
      BY <1>2, <1>6, <1>7, <2>1 DEF Idle, Clear
  <1>9. ASSUME NEW f \in Forwards, Busy(c, f) PROVE Busy(c, f)'
    <2>1. Clear(outbound[c], T) => Clear(u, T)
      BY <1>2, <1>3, <1>6, Taking
    <2>2. Asking(c, f) => Asking(c, f)'
      BY <1>2, <1>6, <1>7, <2>1 DEF Asking, Clear
    <2>3. Capturing(c, f) => Capturing(c, f)'
      <3>1. OwnAnswer(f)' = OwnAnswer(f)
        BY DEF OwnAnswer
      <3>q. QED
        BY <1>2, <1>6, <1>7, <2>1, <3>1 DEF Capturing, Clear
    <2>4. ASSUME Answering(c, f) PROVE Answering(c, f)'
      <3>1. PICK a \in OwnAnswer(f) : Sole(outbound[c], Replying, Reply(f.token, a))
        BY <2>4 DEF Answering
      <3>2. PICK y : y = Reply(f.token, a)
        OBVIOUS
      <3>3. y \in T
        BY <1>6, <3>1, <3>2, OwnAnswers2, ReplyIs
      <3>4. Sole(outbound[c], T, y)
        BY <1>6, <3>1, <3>2
      <3>5. Sole(u, T, y)
        <4>1. Sole(u, T, y) \/ Head(outbound[c]) = y
          BY <1>2, <1>3, <1>6, <3>3, <3>4, Taking
        <4>q. QED
          BY <1>2, <1>6, <3>3, <4>1
      <3>6. Sole(outbound'[c], Replying', Reply(f.token, a))
        BY <1>6, <1>7, <3>2, <3>5
      <3>q. QED
        BY <1>2, <2>4, <3>1, <3>6 DEF Answering, OwnAnswer, Sole, Reply
    <2>q. QED
      BY <1>9, <2>2, <2>3, <2>4 DEF Busy
  <1>10. \A d \in Clients : /\ Idle(d) => Idle(d)'
                            /\ \A f \in Forwards : Busy(d, f) => Busy(d, f)'
    BY <1>8, <1>9, SameIdle DEF OthersSame
  <1>11. /\ ServerIdle => ServerIdle'
         /\ \A f \in Forwards : Sole(server, Forwarding, [what |-> "forward", to |-> f])
              => Sole(server, Forwarding, [what |-> "forward", to |-> f])'
    <2>1. PICK F, s : F = Forwarding /\ s = server'
      OBVIOUS
    <2>2. Forwarding' = F
      BY <2>1 DEF Forwarding, Forwards
    <2>3. PICK r : r = [what |-> "remove", client |-> c]
      OBVIOUS
    <2>4. r \in Served /\ r \notin F
      BY <2>1, <2>3, ServedIs
    <2>5. s = Append(server, r)
      BY <1>2, <2>1, <2>3
    <2>6. Clear(server, F) => Clear(s, F)
      BY <1>3, <2>4, <2>5, Appending
    <2>7. \A y : Sole(server, F, y) => Sole(s, F, y)
      BY <1>3, <2>4, <2>5, Appending
    <2>8. ServerIdle => ServerIdle'
      BY <2>1, <2>2, <2>6 DEF ServerIdle, Clear
    <2>9. ASSUME NEW f \in Forwards, Sole(server, Forwarding, [what |-> "forward", to |-> f])
          PROVE  Sole(server, Forwarding, [what |-> "forward", to |-> f])'
      BY <2>1, <2>2, <2>7, <2>9 DEF Sole
    <2>q. QED
      BY <2>8, <2>9
  <1>12. ASSUME NEW f \in Forwards, AtOnePlace(f) PROVE AtOnePlace(f)'
    <2>1. (OnlyOwn(f) => OnlyOwn(f)') /\ (Unanswered(f) => Unanswered(f)')
      BY <1>4, RepliesStay
    <2>2. AtServer(f) => AtServer(f)'
      BY <1>2, <1>10, <1>11 DEF AtServer
    <2>3. \A d \in Clients : AtClient(d, f) => AtClient(d, f)'
      BY <1>2, <1>10, <1>11 DEF AtClient
    <2>4. Quiet => Quiet'
      BY <1>10, <1>11 DEF Quiet
    <2>q. QED
      BY <1>12, <2>1, <2>2, <2>3, <2>4 DEF AtOnePlace
  <1>q. QED
    BY <1>1, <1>5, <1>10, <1>11, <1>12 DEF OneAtATime, Quiet

\* The reply that is passed on is the answer to the query in flight.
LEMMA TrafficAnswer ==
  ASSUME TypeInv, TrafficInv, NEW c \in Clients, NEW m \in Replying, Routes(c, m),
         outbound[c] # <<>>, OthersSame(c),
         UNCHANGED <<forward, waiting, nextToken, timers, surprised>>
  PROVE  TrafficInv'
  <1>1. SUFFICES ASSUME ~surprised, Numbered, OneAtATime PROVE Numbered' /\ OneAtATime'
    BY DEF TrafficInv
  <1>2. /\ server' = server /\ owner' \subseteq owner /\ m = Head(outbound[c])
        /\ inbox' = Append(inbox, m) /\ m = Reply(m.token, m.answers)
        /\ outbound'[c] = Tail(outbound[c]) /\ kind'[c] = kind[c] /\ inbound'[c] = inbound[c]
        /\ slot'[c] = slot[c] /\ host'[c] = host[c]
    BY OutboundKinds DEF Routes
  <1>3. outbound[c] \in Seq(Outbound) /\ inbox \in Seq(Messages)
    BY TrafficTypes
  <1>4. PICK T, u : T = Replying /\ u = outbound'[c]
    OBVIOUS
  <1>5. Replying' = T
    BY <1>4 DEF Replying
  <1>6. ~Clear(outbound[c], T)
    <2>1. Clear(outbound[c], T) => Head(outbound[c]) \notin T
      BY <1>2, <1>3, <1>4, Taking
    <2>q. QED
      BY <1>2, <1>4, <2>1
  <1>7. ~Idle(c)
    BY <1>4, <1>6 DEF Idle
  <1>8. forward # <<>>
    BY <1>1, <1>7 DEF OneAtATime, Quiet
  <1>9. PICK f \in Forwards : forward = <<f>>
    BY <1>8, ForwardIs
  <1>10. Unanswered(f) /\ AtClient(c, f)
    BY <1>1, <1>7, <1>9 DEF OneAtATime, AtOnePlace, Quiet, AtServer, AtClient
  <1>11. Answering(c, f)
    BY <1>4, <1>6, <1>10 DEF AtClient, Busy, Asking, Capturing
  <1>12. PICK a \in OwnAnswer(f) : Sole(outbound[c], Replying, Reply(f.token, a))
    BY <1>11 DEF Answering
  <1>13. f.token \in Nat /\ a \in Seq(Units)
    BY OwnAnswers2
  <1>14. PICK y : y = Reply(f.token, a)
    OBVIOUS
  <1>15. y \in T /\ y \in Messages /\ y.what = "reply" /\ y.token = f.token /\ y.answers = a
    BY <1>4, <1>13, <1>14, ReplyIs
  <1>16. m = y /\ Clear(u, T)
    <2>1. Sole(outbound[c], T, y)
      BY <1>4, <1>12, <1>14
    <2>2. (Head(outbound[c]) = y /\ Clear(u, T)) \/ Head(outbound[c]) \notin T
      BY <1>2, <1>3, <1>4, <1>15, <2>1, Taking
    <2>q. QED
      BY <1>2, <1>4, <2>2
  <1>17. Quiet'
    <2>1. Idle(c)'
      BY <1>2, <1>4, <1>5, <1>11, <1>16 DEF Answering, Idle, Clear
    <2>2. ServerIdle'
      BY <1>2, <1>10, ServerStays DEF AtClient
    <2>3. \A d \in Clients \ {c} : Idle(d)'
      BY <1>10, SameIdle DEF OthersSame, AtClient
    <2>q. QED
      BY <2>1, <2>2, <2>3 DEF Quiet
  <1>18. PICK r \in Seq(Messages) : /\ inbox' = inbox \o r
                                    /\ \A x \in Replies(r) : x.token = f.token /\ x.answers = a
    <2>1. PICK t \in Nat, b \in Seq(Units) : t = f.token /\ b = a
      BY <1>13
    <2>2. inbox' = Append(inbox, Reply(t, b))
      BY <1>2, <1>14, <1>16, <2>1
    <2>3. \E r \in Seq(Messages) : /\ inbox' = inbox \o r
                                   /\ \A x \in Replies(r) : x.token = t /\ x.answers = b
      BY <2>2, AppendAdds
    <2>q. QED
      BY <2>1, <2>3
  <1>19. Numbered' /\ Replies(inbox)' \subseteq Replies(inbox) \cup Replies(r)
    <2>1. Adds(r)
      BY <1>2, <1>18 DEF Adds
    <2>2. ASSUME NEW n \in Nat, \A g \in Forwards : forward = <<g>> => n = g.token
          PROVE  \A x \in Replies(r) : x.token <= n
      <3>1. n = f.token /\ n <= n
        BY <1>9, <2>2
      <3>q. QED
        BY <1>18, <3>1
    <2>q. QED
      BY <1>1, <2>1, <2>2, AddsReplies
  <1>20. OnlyOwn(f)'
    <2>1. OwnAnswer(f)' = OwnAnswer(f)
      BY DEF OwnAnswer
    <2>q. QED
      BY <1>10, <1>12, <1>18, <1>19, <2>1 DEF OnlyOwn, Unanswered
  <1>21. \A g \in Forwards : forward' = <<g>> => g = f
    BY <1>9
  <1>22. forward' # <<>>
    BY <1>8
  <1>q. QED
    BY <1>17, <1>19, <1>20, <1>21, <1>22 DEF OneAtATime, AtOnePlace

LEMMA TrafficRoute ==
  ASSUME TypeInv, TrafficInv, NEW c \in Clients, Route(c)
  PROVE  TrafficInv'
  <1>1. outbound[c] # <<>> /\ OthersSame(c) /\ \E m \in Outbound : Routes(c, m)
    BY RouteIs
  <1>2. UNCHANGED <<forward, waiting, nextToken, timers, surprised>>
    BY DEF Route, forwardVars, history
  <1>q. QED
    BY <1>1, <1>2, OutboundKinds, TrafficBye, TrafficAnswer

LEMMA InitTraffic == Init => Farewell /\ TrafficInv
  <1> SUFFICES ASSUME Init PROVE Farewell /\ TrafficInv
    OBVIOUS
  <1>1. /\ inbox = <<>> /\ forward = <<>> /\ waiting = <<>> /\ nextToken = 1 /\ timers = {}
        /\ server = <<>> /\ owner = {}
        /\ \A c \in Clients : /\ inbound[c] = <<>> /\ slot[c] = <<>> /\ host[c] = <<>>
                              /\ outbound[c] = <<>>
    BY DEF Init
  <1>2. \A T : Clear(<<>>, T) /\ LastOnly(<<>>, T)
    BY DEF Clear, LastOnly
  <1>3. Farewell
    BY <1>1, <1>2 DEF Farewell, FarewellAt
  <1>4. Quiet
    BY <1>1, <1>2 DEF Quiet, ServerIdle, Idle
  <1>5. OneAtATime
    BY <1>1, <1>4 DEF OneAtATime
  <1>6. Numbered
    BY <1>1 DEF Numbered, UpTo, Replies
  <1>q. QED
    BY <1>3, <1>5, <1>6 DEF TrafficInv

\* As long as nothing comes too late the query in flight is at one place.
LEMMA TrafficKept == TypeInv /\ KeptInv /\ Farewell /\ TrafficInv /\ [Next]_vars => TrafficInv'
  <1> SUFFICES ASSUME TypeInv, KeptInv, Farewell, TrafficInv, [Next]_vars PROVE TrafficInv'
    OBVIOUS
  <1>1. CASE Bystanding
    BY <1>1, TrafficBystanding
  <1>2. CASE ForwardHostQuery \/ HandleForwardedReply
    BY <1>2, TrafficHostQuery, TrafficReply
  <1>3. CASE ServerStep
    BY <1>3, TrafficRelays, TrafficRemove DEF ServerStep
  <1>4. CASE \E token \in timers : ServerTimer(token)
    BY <1>4, TrafficTimer
  <1>5. CASE \E c \in Clients : Route(c)
    BY <1>5, TrafficRoute
  <1>6. CASE \E c \in Clients : OpenForward(c) \/ HostTerminal(c) \/ ClientTimer(c) \/ ClientLeaves(c)
    BY <1>6, TrafficClient
  <1>q. QED
    BY <1>1, <1>2, <1>3, <1>4, <1>5, <1>6, Bystanders, Zenon DEF Next, User, ScreenStep

-----------------------------------------------------------------------------
(* What is written to a program. *)

\* s is about items of p, none of them behind n, in their order.
Within(p, s, n) ==
  /\ \A i \in 1 .. Len(s) : s[i].pane = p /\ s[i].at <= n
  /\ \A i, j \in 1 .. Len(s) : i < j => s[i].at < s[j].at
\* and t is about later ones
Elements(s) == {s[i] : i \in 1 .. Len(s)}
Before(s, t) == \A x \in Elements(s), y \in Elements(t) : x.at < y.at

LEMMA UnitsHave == \A q \in Units : q.at \in Nat /\ q.pane \in Panes
  BY DEF Units

LEMMA ConcatIndex ==
  ASSUME NEW s \in Seq(Units), NEW t \in Seq(Units), NEW u, u = s \o t,
         NEW a \in Nat, a = Len(s), NEW b \in Nat, b = Len(t)
  PROVE  /\ Len(u) = a + b
         /\ \A i \in 1 .. a : i \in 1 .. a + b /\ u[i] = s[i]
         /\ \A i \in 1 .. b : a + i \in 1 .. a + b /\ u[a + i] = t[i]
         /\ \A i \in 1 .. a + b :
              i \notin 1 .. a => i - a \in 1 .. b /\ u[i] = t[i - a]
  <1>1. /\ Len(u) = a + b
        /\ \A i \in 1 .. a : i \in 1 .. a + b /\ u[i] = s[i]
    OBVIOUS
  <1>2. \A i \in 1 .. b : a + i \in 1 .. a + b /\ u[a + i] = t[i]
    OBVIOUS
  <1>3. ASSUME NEW i \in 1 .. a + b, i \notin 1 .. a PROVE i - a \in 1 .. b /\ u[i] = t[i - a]
    <2>1. i - a \in 1 .. b /\ a + (i - a) = i
      BY <1>3
    <2>q. QED
      BY <1>2, <2>1
  <1>q. QED
    BY <1>1, <1>2, <1>3

LEMMA ElementsConcat ==
  ASSUME NEW s \in Seq(Units), NEW t \in Seq(Units), NEW u, u = s \o t
  PROVE  Elements(u) = Elements(s) \cup Elements(t) /\ Elements(u) \subseteq Units
  <1>1. PICK a \in Nat, b \in Nat : a = Len(s) /\ b = Len(t)
    OBVIOUS
  <1>2. /\ Len(u) = a + b
        /\ \A i \in 1 .. a : i \in 1 .. a + b /\ u[i] = s[i]
        /\ \A i \in 1 .. b : a + i \in 1 .. a + b /\ u[a + i] = t[i]
        /\ \A i \in 1 .. a + b :
             i \notin 1 .. a => i - a \in 1 .. b /\ u[i] = t[i - a]
    BY <1>1, ConcatIndex
  <1>3. Elements(u) \subseteq Elements(s) \cup Elements(t)
    BY <1>1, <1>2 DEF Elements
  <1>4. Elements(s) \subseteq Elements(u)
    BY <1>1, <1>2 DEF Elements
  <1>5. Elements(t) \subseteq Elements(u)
    <2>1. ASSUME NEW i \in 1 .. b PROVE t[i] \in Elements(u)
      BY <1>2, <2>1 DEF Elements
    <2>q. QED
      BY <1>1, <2>1 DEF Elements
  <1>6. Elements(s) \subseteq Units /\ Elements(t) \subseteq Units
    BY DEF Elements
  <1>q. QED
    BY <1>3, <1>4, <1>5, <1>6

LEMMA BeforeConcat ==
  ASSUME NEW r \in Seq(Units), NEW s \in Seq(Units), NEW t \in Seq(Units), NEW u, u = s \o t
  PROVE  /\ Before(r, u) <=> Before(r, s) /\ Before(r, t)
         /\ Before(u, r) <=> Before(s, r) /\ Before(t, r)
  <1>1. Elements(u) = Elements(s) \cup Elements(t)
    BY ElementsConcat
  <1>2. Before(r, u) <=> Before(r, s) /\ Before(r, t)
    BY <1>1 DEF Before
  <1>3. Before(u, r) <=> Before(s, r) /\ Before(t, r)
    BY <1>1 DEF Before
  <1>q. QED
    BY <1>2, <1>3

LEMMA WithinConcat ==
  ASSUME NEW p, NEW s \in Seq(Units), NEW t \in Seq(Units), NEW n \in Nat, NEW u, u = s \o t
  PROVE  Within(p, u, n) <=> Within(p, s, n) /\ Within(p, t, n) /\ Before(s, t)
  <1>1. PICK a \in Nat, b \in Nat : a = Len(s) /\ b = Len(t)
    OBVIOUS
  <1>2. /\ Len(u) = a + b
        /\ \A i \in 1 .. a : i \in 1 .. a + b /\ u[i] = s[i]
        /\ \A i \in 1 .. b : a + i \in 1 .. a + b /\ u[a + i] = t[i]
        /\ \A i \in 1 .. a + b :
             i \notin 1 .. a => i - a \in 1 .. b /\ u[i] = t[i - a]
    BY <1>1, ConcatIndex
  <1>3. \A i, j \in 1 .. b : i < j <=> a + i < a + j
    BY <1>1
  <1>4. \A i \in 1 .. a, j \in 1 .. b : i < a + j
    BY <1>1
  <1>5. ASSUME Within(p, u, n) PROVE Within(p, s, n) /\ Within(p, t, n) /\ Before(s, t)
    <2>1. Within(p, s, n)
      BY <1>1, <1>2, <1>5 DEF Within
    <2>2. Within(p, t, n)
      <3>1. ASSUME NEW i \in 1 .. b PROVE t[i].pane = p /\ t[i].at <= n
        <4>1. PICK k \in 1 .. Len(u) : u[k] = t[i]
          BY <1>2
        <4>q. QED
          BY <1>5, <4>1 DEF Within
      <3>2. ASSUME NEW i \in 1 .. b, NEW j \in 1 .. b, i < j PROVE t[i].at < t[j].at
        <4>1. PICK k, l \in 1 .. Len(u) : u[k] = t[i] /\ u[l] = t[j] /\ k < l
          BY <1>2, <1>3, <3>2
        <4>q. QED
          BY <1>5, <4>1 DEF Within
      <3>q. QED
        BY <1>1, <3>1, <3>2 DEF Within
    <2>3. ASSUME NEW i \in 1 .. a, NEW j \in 1 .. b PROVE s[i].at < t[j].at
      <3>1. PICK k, l \in 1 .. Len(u) : u[k] = s[i] /\ u[l] = t[j] /\ k < l
        BY <1>2, <1>4
      <3>q. QED
        BY <1>5, <3>1 DEF Within
    <2>4. Before(s, t)
      BY <1>1, <2>3 DEF Before, Elements
    <2>q. QED
      BY <2>1, <2>2, <2>4
  <1>6. ASSUME Within(p, s, n), Within(p, t, n), Before(s, t) PROVE Within(p, u, n)
    <2>1. \A i \in 1 .. Len(u) : u[i].pane = p /\ u[i].at <= n
      BY <1>1, <1>2, <1>6 DEF Within
    <2>2. ASSUME NEW i \in 1 .. Len(u), NEW j \in 1 .. Len(u), i < j
          PROVE  u[i].at < u[j].at
      <3>1. CASE i \in 1 .. a /\ j \in 1 .. a
        BY <1>1, <1>2, <1>6, <2>2, <3>1 DEF Within
      <3>2. CASE i \in 1 .. a /\ j \notin 1 .. a
        <4>1. j - a \in 1 .. b /\ u[j] = t[j - a] /\ u[i] = s[i]
          BY <1>2, <3>2
        <4>2. u[i] \in Elements(s) /\ u[j] \in Elements(t)
          BY <1>1, <3>2, <4>1 DEF Elements
        <4>q. QED
          BY <1>6, <4>2 DEF Before
      <3>3. CASE i \notin 1 .. a
        <4>1. j \notin 1 .. a
          BY <1>1, <1>2, <2>2, <3>3
        <4>2. i - a \in 1 .. b /\ u[i] = t[i - a] /\ j - a \in 1 .. b /\ u[j] = t[j - a]
          BY <1>2, <3>3, <4>1
        <4>3. i - a < j - a
          BY <1>1, <1>2, <2>2
        <4>q. QED
          BY <1>1, <1>6, <4>2, <4>3 DEF Within
      <3>q. QED
        BY <3>1, <3>2, <3>3
    <2>q. QED
      BY <2>1, <2>2 DEF Within
  <1>q. QED
    BY <1>5, <1>6

LEMMA WithinFacts ==
  ASSUME NEW p
  PROVE  /\ \A n : Within(p, <<>>, n)
         /\ \A s : Before(<<>>, s) /\ Before(s, <<>>)
         /\ \A q \in Units : q.pane = p => Within(p, <<q>>, q.at)
         /\ \A s \in Seq(Units), m, n \in Nat : m <= n /\ Within(p, s, m) => Within(p, s, n)
  <1>1. (\A n : Within(p, <<>>, n)) /\ (\A s : Before(<<>>, s) /\ Before(s, <<>>))
    BY DEF Within, Before, Elements
  <1>2. ASSUME NEW q \in Units, q.pane = p PROVE Within(p, <<q>>, q.at)
    <2>1. q.at \in Nat
      BY DEF Units
    <2>2. Len(<<q>>) = 1 /\ <<q>>[1] = q
      OBVIOUS
    <2>q. QED
      BY <1>2, <2>1, <2>2 DEF Within
  <1>3. ASSUME NEW s \in Seq(Units), NEW m \in Nat, NEW n \in Nat, m <= n, Within(p, s, m)
        PROVE  Within(p, s, n)
    <2>1. \A i \in 1 .. Len(s) : s[i] \in Units
      OBVIOUS
    <2>2. \A i \in 1 .. Len(s) : s[i].at \in Nat
      BY <2>1, UnitsHave
    <2>q. QED
      BY <1>3, <2>2 DEF Within
  <1>q. QED
    BY <1>1, <1>2, <1>3

\* What is dropped in the middle leaves the order of the rest.
LEMMA WithinDrop ==
  ASSUME NEW p, NEW r \in Seq(Units), NEW s \in Seq(Units), NEW t \in Seq(Units), NEW n \in Nat,
         Within(p, (r \o s) \o t, n)
  PROVE  Within(p, r \o t, n)
  <1>1. PICK u : u = r \o s
    OBVIOUS
  <1>2. u \in Seq(Units)
    BY <1>1
  <1>3. Within(p, u, n) /\ Within(p, t, n) /\ Before(u, t)
    BY <1>1, <1>2, WithinConcat
  <1>4. Within(p, r, n) /\ Before(r, t)
    BY <1>1, <1>2, <1>3, WithinConcat, BeforeConcat
  <1>q. QED
    BY <1>3, <1>4, WithinConcat

\* What is about later items may follow.
LEMMA WithinThen ==
  ASSUME NEW p, NEW s \in Seq(Units), NEW t \in Seq(Units), NEW m \in Nat, NEW n \in Nat, m <= n,
         Within(p, s, m), Within(p, t, n), \A i \in 1 .. Len(t) : m < t[i].at
  PROVE  Within(p, s \o t, n)
  <1>1. Within(p, s, n)
    BY WithinFacts
  <1>2. Before(s, t)
    <2>1. (\A i \in 1 .. Len(s) : s[i] \in Units) /\ (\A i \in 1 .. Len(t) : t[i] \in Units)
      OBVIOUS
    <2>2. ASSUME NEW i \in 1 .. Len(s), NEW j \in 1 .. Len(t) PROVE s[i].at < t[j].at
      <3>1. s[i].at \in Nat /\ t[j].at \in Nat
        BY <2>1, <2>2, UnitsHave
      <3>2. s[i].at <= m /\ m < t[j].at
        BY <2>2 DEF Within
      <3>q. QED
        BY <3>1, <3>2
    <2>q. QED
      BY <2>2 DEF Before, Elements
  <1>q. QED
    BY <1>1, <1>2, WithinConcat

-----------------------------------------------------------------------------
(* What the channel of the writer thread holds for a program. *)

UnitsFor(t) == [w \in Writes |-> IF w.to = t THEN w.units ELSE <<>>]

LEMMA SentMaps ==
  ASSUME NEW t
  PROVE  /\ Maps(UnitsFor(t), Writes, Units)
         /\ \A ws \in Seq(Writes) : Sent(t, ws) = FlatMap(UnitsFor(t), ws)
  <1>1. ASSUME NEW w \in Writes PROVE (IF w.to = t THEN w.units ELSE <<>>) \in Seq(Units)
    BY DEF Writes
  <1>2. Maps(UnitsFor(t), Writes, Units)
    BY <1>1 DEF Maps, UnitsFor
  <1>3. ASSUME NEW ws \in Seq(Writes) PROVE Sent(t, ws) = FlatMap(UnitsFor(t), ws)
    <2>1. \A i \in 1 .. Len(ws) :
            (IF ws[i].to = t THEN ws[i].units ELSE <<>>) = UnitsFor(t)[ws[i]]
      BY DEF UnitsFor
    <2>q. QED
      BY <2>1 DEF Sent, FlatMap
  <1>q. QED
    BY <1>2, <1>3

LEMMA SentType ==
  ASSUME NEW t, NEW ws \in Seq(Writes)
  PROVE  Sent(t, ws) \in Seq(Units)
  <1>1. \A i \in 1 .. Len(ws) : UnitsFor(t)[ws[i]] \in Seq(Units)
    BY SentMaps DEF Maps
  <1>2. FlatMap(UnitsFor(t), ws) \in Seq(Units)
    BY <1>1, FlatMapType
  <1>q. QED
    BY <1>2, SentMaps

LEMMA SentConcat ==
  ASSUME NEW t, NEW ws \in Seq(Writes), NEW xs \in Seq(Writes)
  PROVE  Sent(t, ws \o xs) = Sent(t, ws) \o Sent(t, xs)
  <1>1. ws \o xs \in Seq(Writes)
    OBVIOUS
  <1>2. FlatMap(UnitsFor(t), ws \o xs) = FlatMap(UnitsFor(t), ws) \o FlatMap(UnitsFor(t), xs)
    BY SentMaps, FlatMapConcat
  <1>q. QED
    BY <1>1, <1>2, SentMaps

LEMMA SentHead ==
  ASSUME NEW t, NEW ws \in Seq(Writes), ws # <<>>
  PROVE  Sent(t, ws) = (IF Head(ws).to = t THEN Head(ws).units ELSE <<>>) \o Sent(t, Tail(ws))
  <1>1. Head(ws) \in Writes /\ Tail(ws) \in Seq(Writes)
    OBVIOUS
  <1>2. FlatMap(UnitsFor(t), ws) = UnitsFor(t)[Head(ws)] \o FlatMap(UnitsFor(t), Tail(ws))
    BY SentMaps, FlatMapHead
  <1>3. UnitsFor(t)[Head(ws)] = IF Head(ws).to = t THEN Head(ws).units ELSE <<>>
    BY <1>1 DEF UnitsFor
  <1>q. QED
    BY <1>1, <1>2, <1>3, SentMaps

LEMMA SentEmpty ==
  ASSUME NEW t
  PROVE  Sent(t, <<>>) = <<>>
  <1>1. PICK s : s = <<>>
    OBVIOUS
  <1>2. s \in Seq(Writes) /\ \A i \in 1 .. Len(s) : UnitsFor(t)[s[i]] = <<>>
    BY <1>1
  <1>3. FlatMap(UnitsFor(t), s) = <<>>
    BY <1>2, FlatMapNone
  <1>q. QED
    BY <1>1, <1>2, <1>3, SentMaps

LEMMA SentWriteTo ==
  ASSUME NEW t, NEW p \in Panes, NEW answers \in Seq(Units)
  PROVE  Sent(t, WriteTo(p, answers)) = IF p = t THEN answers ELSE <<>>
  <1>1. CASE answers = <<>>
    <2>1. WriteTo(p, answers) = <<>>
      BY <1>1 DEF WriteTo
    <2>q. QED
      BY <1>1, <2>1, SentEmpty
  <1>2. CASE answers # <<>>
    <2>1. PICK w : w = [to |-> p, units |-> answers]
      OBVIOUS
    <2>2. w \in Writes /\ w.to = p /\ w.units = answers
      BY <2>1 DEF Writes
    <2>3. WriteTo(p, answers) = <<w>> /\ <<w>> \in Seq(Writes)
      BY <1>2, <2>1, <2>2 DEF WriteTo
    <2>4. FlatMap(UnitsFor(t), <<w>>) = UnitsFor(t)[w]
      BY <2>2, SentMaps, FlatMapOne
    <2>5. UnitsFor(t)[w] = IF p = t THEN answers ELSE <<>>
      BY <2>2 DEF UnitsFor
    <2>q. QED
      BY <2>3, <2>4, <2>5, SentMaps
  <1>q. QED
    BY <1>1, <1>2

-----------------------------------------------------------------------------
(* What the items that are parsed answer at once: one answer for each that *)
(* asks the pane itself, in their order.                                   *)

Rising(s) == \A i, j \in 1 .. Len(s) : i < j => s[i] < s[j]
\* Each answer is that of an item that asks the pane.
OwnReplies(p, s, u) ==
  /\ \A k \in 1 .. Len(u) : /\ u[k].pane = p
                            /\ \E i \in 1 .. Len(s) : /\ u[k].at = s[i]
                                                      /\ KindOf(p, s[i]) = "sync"
  /\ \A k, l \in 1 .. Len(u) : k < l => u[k].at < u[l].at

AnswerTo(p) == [i \in Nat |-> Answer(p, i)]

LEMMA AnswerMaps ==
  ASSUME NEW p \in Panes
  PROVE  /\ Maps(AnswerTo(p), Nat, Writes)
         /\ \A s \in Items : Answers(p, s) = FlatMap(AnswerTo(p), s)
         /\ \A i \in Nat : \A t : Sent(t, Answer(p, i)) =
              IF t = p /\ KindOf(p, i) = "sync" THEN <<Query(p, i, 1)>> ELSE <<>>
  <1>1. \A i \in Nat : <<Query(p, i, 1)>> \in Seq(Units)
    BY DEF Query, Units
  <1>2. \A i \in Nat : Answer(p, i) \in Seq(Writes)
    <2>1. <<>> \in Seq(Writes)
      OBVIOUS
    <2>2. \A u \in Seq(Units) : WriteTo(p, u) \in Seq(Writes)
      BY WriteToType
    <2>q. QED
      BY <1>1, <2>1, <2>2, Zenon DEF Answer
  <1>3. Maps(AnswerTo(p), Nat, Writes)
    BY <1>2 DEF Maps, AnswerTo
  <1>4. ASSUME NEW s \in Items PROVE Answers(p, s) = FlatMap(AnswerTo(p), s)
    <2>1. \A i \in 1 .. Len(s) : Answer(p, s[i]) = AnswerTo(p)[s[i]]
      BY DEF AnswerTo, Items
    <2>q. QED
      BY <2>1 DEF Answers, FlatMap
  <1>5. ASSUME NEW i \in Nat, NEW t
        PROVE  Sent(t, Answer(p, i)) =
                 IF t = p /\ KindOf(p, i) = "sync" THEN <<Query(p, i, 1)>> ELSE <<>>
    <2>1. PICK u \in Seq(Units) : u = <<Query(p, i, 1)>>
      BY <1>1
    <2>2. Sent(t, WriteTo(p, u)) = IF p = t THEN u ELSE <<>>
      BY SentWriteTo
    <2>3. Sent(t, <<>>) = <<>>
      BY SentEmpty
    <2>q. QED
      BY <2>1, <2>2, <2>3 DEF Answer
  <1>q. QED
    BY <1>3, <1>4, <1>5

LEMMA AnswersAppend ==
  ASSUME NEW p \in Panes, NEW s \in Items, NEW x \in Nat, NEW t
  PROVE  Sent(t, Answers(p, Append(s, x))) =
           Sent(t, Answers(p, s)) \o
             (IF t = p /\ KindOf(p, x) = "sync" THEN <<Query(p, x, 1)>> ELSE <<>>)
  <1>1. PICK y : y = <<x>>
    OBVIOUS
  <1>2. s \in Seq(Nat) /\ y \in Seq(Nat) /\ Append(s, x) = s \o y /\ Append(s, x) \in Items
        /\ y \in Items
    BY <1>1 DEF Items
  <1>3. Answers(p, s \o y) = Answers(p, s) \o Answers(p, y)
    <2>1. FlatMap(AnswerTo(p), s \o y) = FlatMap(AnswerTo(p), s) \o FlatMap(AnswerTo(p), y)
      BY <1>2, AnswerMaps, FlatMapConcat
    <2>q. QED
      BY <1>2, <2>1, AnswerMaps
  <1>4. Answers(p, y) = Answer(p, x)
    <2>1. FlatMap(AnswerTo(p), <<x>>) = AnswerTo(p)[x]
      BY AnswerMaps, FlatMapOne
    <2>2. AnswerTo(p)[x] = Answer(p, x)
      BY DEF AnswerTo
    <2>q. QED
      BY <1>1, <1>2, <2>1, <2>2, AnswerMaps
  <1>5. Answers(p, s) \in Seq(Writes) /\ Answers(p, y) \in Seq(Writes)
    BY <1>2, AnswersType
  <1>6. Sent(t, Answers(p, s) \o Answers(p, y)) = Sent(t, Answers(p, s)) \o Sent(t, Answers(p, y))
    BY <1>5, SentConcat
  <1>7. Sent(t, Answers(p, Append(s, x))) = Sent(t, Answers(p, s)) \o Sent(t, Answer(p, x))
    BY <1>2, <1>3, <1>4, <1>6, Zenon
  <1>8. Sent(t, Answer(p, x)) = IF t = p /\ KindOf(p, x) = "sync" THEN <<Query(p, x, 1)>> ELSE <<>>
    BY AnswerMaps
  <1>q. QED
    BY <1>7, <1>8, Zenon

LEMMA AnswersEmpty ==
  ASSUME NEW p \in Panes, NEW t
  PROVE  Sent(t, Answers(p, <<>>)) = <<>>
  <1>1. PICK s : s = <<>>
    OBVIOUS
  <1>2. s \in Items /\ s \in Seq(Nat) /\ \A i \in 1 .. Len(s) : AnswerTo(p)[s[i]] = <<>>
    BY <1>1 DEF Items
  <1>3. FlatMap(AnswerTo(p), s) = <<>>
    BY <1>2, FlatMapNone
  <1>q. QED
    BY <1>1, <1>2, <1>3, AnswerMaps, SentEmpty

LEMMA AnswersElsewhere ==
  ASSUME NEW p \in Panes, NEW t, t # p
  PROVE  \A s \in Items : Sent(t, Answers(p, s)) = <<>>
  <1> DEFINE T == {s \in Items : Sent(t, Answers(p, s)) = <<>>}
  <1>1. <<>> \in T
    BY AnswersEmpty DEF Items
  <1>2. ASSUME NEW s \in Seq(Nat), NEW x \in Nat, s \in T PROVE Append(s, x) \in T
    <2>1. s \in Items /\ Append(s, x) \in Items
      BY DEF Items
    <2>2. Sent(t, Answers(p, Append(s, x))) = Sent(t, Answers(p, s)) \o <<>>
      BY <2>1, AnswersAppend
    <2>3. Sent(t, Answers(p, s)) = <<>>
      BY <1>2
    <2>q. QED
      BY <2>1, <2>2, <2>3
  <1>3. Seq(Nat) \subseteq T
    <2> HIDE DEF T
    <2>q. QED
      BY <1>1, <1>2, SeqInduction
  <1>q. QED
    BY <1>3 DEF Items

\* The answers of items that rise are in order, and each is that of an item.
LEMMA AnswersRise ==
  ASSUME NEW p \in Panes
  PROVE  \A s \in Items : Rising(s) => OwnReplies(p, s, Sent(p, Answers(p, s)))
  <1> DEFINE T == {s \in Items : Rising(s) => OwnReplies(p, s, Sent(p, Answers(p, s)))}
  <1>1. <<>> \in T
    <2>1. \A s : OwnReplies(p, s, <<>>)
      BY DEF OwnReplies
    <2>q. QED
      BY <2>1, AnswersEmpty DEF Items
  <1>2. ASSUME NEW s \in Seq(Nat), NEW x \in Nat, s \in T PROVE Append(s, x) \in T
    <2>1. PICK r : r = Append(s, x)
      OBVIOUS
    <2>2. PICK u : u = Sent(p, Answers(p, s))
      OBVIOUS
    <2>3. PICK v : v = Sent(p, Answers(p, r))
      OBVIOUS
    <2>4. PICK m \in Nat : m = Len(s)
      OBVIOUS
    <2>5. /\ s \in Items /\ r \in Items /\ Len(r) = m + 1 /\ r[m + 1] = x
          /\ m + 1 \in 1 .. Len(r)
          /\ \A i \in 1 .. m : i \in 1 .. Len(r) /\ r[i] = s[i]
      BY <2>1, <2>4 DEF Items
    <2>6. SUFFICES ASSUME Rising(r) PROVE OwnReplies(p, r, v)
      BY <2>1, <2>3, <2>5
    <2>7. Rising(s) /\ \A i \in 1 .. m : s[i] < x
      <3>1. \A i \in 1 .. m : i < m + 1
        BY <2>4
      <3>2. Rising(s)
        BY <2>4, <2>5, <2>6 DEF Rising
      <3>3. ASSUME NEW i \in 1 .. m PROVE s[i] < x
        <4>1. i < m + 1 /\ i \in 1 .. Len(r) /\ r[i] = s[i]
          BY <2>5, <3>1
        <4>q. QED
          BY <2>5, <2>6, <4>1 DEF Rising
      <3>q. QED
        BY <3>2, <3>3
    <2>8. OwnReplies(p, s, u)
      BY <1>2, <2>2, <2>7
    <2>9. u \in Seq(Units)
      <3>1. Answers(p, s) \in Seq(Writes)
        BY <2>5, AnswersType
      <3>q. QED
        BY <2>2, <3>1, SentType
    <2>10. \A k \in 1 .. Len(u) :
             /\ u[k].pane = p /\ u[k].at < x
             /\ \E i \in 1 .. Len(r) : u[k].at = r[i] /\ KindOf(p, r[i]) = "sync"
      <3>1. ASSUME NEW k \in 1 .. Len(u)
            PROVE  /\ u[k].pane = p /\ u[k].at < x
                   /\ \E i \in 1 .. Len(r) : u[k].at = r[i] /\ KindOf(p, r[i]) = "sync"
        <4>1. PICK i \in 1 .. m : u[k].at = s[i] /\ KindOf(p, s[i]) = "sync"
          BY <2>4, <2>8 DEF OwnReplies
        <4>2. u[k].pane = p
          BY <2>8 DEF OwnReplies
        <4>q. QED
          BY <2>5, <2>7, <4>1, <4>2
      <3>q. QED
        BY <3>1
    <2>11. CASE KindOf(p, x) # "sync"
      <3>1. v = u \o <<>>
        BY <2>1, <2>2, <2>3, <2>5, <2>11, AnswersAppend
      <3>2. v = u
        BY <2>9, <3>1
      <3>q. QED
        BY <2>8, <2>10, <3>2 DEF OwnReplies
    <2>12. CASE KindOf(p, x) = "sync"
      <3>1. PICK q : q = Query(p, x, 1)
        OBVIOUS
      <3>2. q \in Units /\ q.pane = p /\ q.at = x
        BY <3>1 DEF Query, Units
      <3>3. v = u \o <<q>>
        BY <2>1, <2>2, <2>3, <2>5, <2>12, <3>1, AnswersAppend
      <3>4. PICK n \in Nat : n = Len(u)
        BY <2>9
      <3>5. /\ Len(v) = n + 1 /\ v[n + 1] = q
            /\ \A k \in 1 .. n : v[k] = u[k]
            /\ \A k \in 1 .. n + 1 : k \in 1 .. n \/ k = n + 1
        BY <2>9, <3>2, <3>3, <3>4
      <3>6. q.pane = p /\ \E i \in 1 .. Len(r) : q.at = r[i] /\ KindOf(p, r[i]) = "sync"
        BY <2>5, <2>12, <3>2
      <3>7. ASSUME NEW k \in 1 .. Len(v)
            PROVE  /\ v[k].pane = p
                   /\ \E i \in 1 .. Len(r) : v[k].at = r[i] /\ KindOf(p, r[i]) = "sync"
        BY <2>10, <3>4, <3>5, <3>6
      <3>8. ASSUME NEW k \in 1 .. Len(v), NEW l \in 1 .. Len(v), k < l
            PROVE  v[k].at < v[l].at
        <4>1. k \in 1 .. n /\ v[k] = u[k]
          BY <3>4, <3>5, <3>8
        <4>2. CASE l \in 1 .. n
          BY <2>8, <3>4, <3>5, <3>8, <4>1, <4>2 DEF OwnReplies
        <4>3. CASE l = n + 1
          BY <2>10, <3>2, <3>4, <3>5, <4>1, <4>3
        <4>q. QED
          BY <3>5, <4>2, <4>3
      <3>q. QED
        BY <3>7, <3>8 DEF OwnReplies
    <2>q. QED
      BY <2>11, <2>12
  <1>3. Seq(Nat) \subseteq T
    <2> HIDE DEF T
    <2>q. QED
      BY <1>1, <1>2, SeqInduction
  <1>q. QED
    BY <1>3 DEF Items

-----------------------------------------------------------------------------
(* The programs ask for one thing at a time. *)

\* No escape sequence a program prints asks for two things at once; one that does is
\* what HostQueries_several is about.
NoPairs ==
  \A p \in Panes : \A s \in Scripts[p] :
    \A i \in 1 .. Len(s) : \A j \in 1 .. Len(s[i]) : s[i][j] # "pair"

Plain(s) == \A i \in 1 .. Len(s) : s[i] # "pair"
Single ==
  \A p \in Panes : /\ Plain(printed[p])
                   /\ \A i \in 1 .. Len(script[p]) : Plain(script[p][i])

LEMMA InitSingle == Init /\ NoPairs => Single
  <1> SUFFICES ASSUME Init, NoPairs, NEW p \in Panes
               PROVE  /\ Plain(printed[p])
                      /\ \A i \in 1 .. Len(script[p]) : Plain(script[p][i])
    BY DEF Single
  <1>1. printed[p] = <<>> /\ script[p] \in Scripts[p]
    BY DEF Init
  <1>q. QED
    BY <1>1 DEF NoPairs, Plain

LEMMA PrintsSingle ==
  ASSUME TypeInv, Single, NEW p \in Panes, Prints(p)
  PROVE  Single'
  <1>1. PICK chunk : chunk = Head(script[p])
    OBVIOUS
  <1>2. PICK s : s = script[p]
    OBVIOUS
  <1>3. s \in Seq(Seq(Kinds)) /\ s # <<>> /\ printed[p] \in Seq(Kinds)
    BY <1>2 DEF Prints, TypeInv, PaneTypes
  <1>4. chunk \in Seq(Kinds) /\ Plain(chunk) /\ \A i \in 1 .. Len(Tail(s)) : Plain(Tail(s)[i])
    <2>1. PICK S : S = Seq(Kinds)
      OBVIOUS
    <2>2. s \in Seq(S) /\ s # <<>>
      BY <1>3, <2>1
    <2>3. \A i \in 1 .. Len(s) : Plain(s[i])
      BY <1>2 DEF Single
    <2>4. /\ Head(s) = s[1] /\ 1 \in 1 .. Len(s) /\ Head(s) \in S
          /\ \A i \in 1 .. Len(Tail(s)) : Tail(s)[i] = s[i + 1] /\ i + 1 \in 1 .. Len(s)
      BY <2>2
    <2>q. QED
      BY <1>1, <1>2, <2>1, <2>3, <2>4
  <1>5. printed'[p] = printed[p] \o chunk /\ script'[p] = Tail(s)
    BY <1>1, <1>2 DEF Prints, TypeInv, PaneTypes
  <1>6. Plain(printed[p] \o chunk)
    <2>1. Plain(printed[p])
      BY DEF Single
    <2>q. QED
      BY <1>3, <1>4, <2>1 DEF Plain
  <1>7. \A t \in Panes \ {p} : printed'[t] = printed[t] /\ script'[t] = script[t]
    BY DEF Prints, TypeInv, PaneTypes
  <1>8. ASSUME NEW t \in Panes
        PROVE  /\ Plain(printed'[t])
               /\ \A i \in 1 .. Len(script'[t]) : Plain(script'[t][i])
    <2>1. CASE t = p
      BY <1>4, <1>5, <1>6, <2>1
    <2>2. CASE t # p
      BY <1>7, <2>2 DEF Single
    <2>q. QED
      BY <2>1, <2>2
  <1>q. QED
    BY <1>8 DEF Single, Plain

LEMMA SingleKept == TypeInv /\ Single /\ [Next]_vars => Single'
  <1> SUFFICES ASSUME TypeInv, Single, [Next]_vars PROVE Single'
    OBVIOUS
  <1>1. CASE UNCHANGED <<script, printed>>
    BY <1>1 DEF Single, Plain
  <1>2. CASE \E p \in Panes : Prints(p)
    BY <1>2, PrintsSingle
  <1>3. (\E p \in Panes : \/ ScrollUp(p) \/ ScrollToBottom(p) \/ ScrollTerminalDown(p)
                          \/ MoveToTab(p) \/ ClosePane(p))
        => UNCHANGED <<script, printed>>
    BY DEF ScrollUp, ScrollToBottom, ScrollTerminalDown, MoveToTab, ClosePane, Command
  <1>4. ScreenStep => UNCHANGED <<script, printed>>
    BY DEF ScreenStep, HandlePtyBytes, ForwardHostQuery, AnswerColorMode,
           HandleForwardedReply, paneVars
  <1>5. ServerStep => UNCHANGED <<script, printed>>
    BY DEF ServerStep, ForwardQueryToHost, RemoveClient, paneVars
  <1>6. (\E token \in timers : ServerTimer(token)) => UNCHANGED <<script, printed>>
    BY DEF ServerTimer, paneVars
  <1>7. (\E c \in Clients : \/ Route(c) \/ OpenForward(c) \/ HostTerminal(c)
                            \/ ClientTimer(c) \/ ClientLeaves(c))
        => UNCHANGED <<script, printed>>
    BY DEF Route, OpenForward, HostTerminal, ClientTimer, ClientLeaves, paneVars
  <1>8. WriterStep \/ UNCHANGED vars => UNCHANGED <<script, printed>>
    BY DEF WriterStep, vars, paneVars
  <1>q. QED
    BY <1>1, <1>2, <1>3, <1>4, <1>5, <1>6, <1>7, <1>8, Zenon DEF Next, User

-----------------------------------------------------------------------------
(* The questions of a pane, which are in the channel of Screen or in the    *)
(* line of those that are forwarded.                                        *)

Line == forward \o waiting
QueriesOf(p) == [what : {"query"}, mode : BOOLEAN, query : {q \in Units : q.pane = p}]
ForwardsOf(p) == [token : Nat, query : {q \in Units : q.pane = p}]
Question(b, q) == [what |-> "query", mode |-> b, query |-> q]
Forward(t, q) == [token |-> t, query |-> q]

LEMMA QueryIs ==
  ASSUME NEW m \in Messages
  PROVE  /\ m.what # "query" => \A p : m \notin QueriesOf(p)
         /\ m.what = "query" =>
              /\ m.query \in Units /\ m.mode \in BOOLEAN /\ m = Question(m.mode, m.query)
              /\ m \in QueriesOf(m.query.pane)
              /\ \A p : m \in QueriesOf(p) => m.query.pane = p
  BY DEF Messages, QueriesOf, Question

LEMMA QuestionIs ==
  ASSUME NEW q \in Units, NEW b \in BOOLEAN, NEW m, m = Question(b, q)
  PROVE  /\ m \in Messages /\ m \in QueriesOf(q.pane) /\ m.what = "query" /\ m.query = q
         /\ m.mode = b
         /\ \A p : m \in QueriesOf(p) => q.pane = p
  BY DEF Messages, QueriesOf, Question

LEMMA ForwardOf ==
  ASSUME NEW f \in Forwards
  PROVE  /\ f.token \in Nat /\ f.query \in Units /\ f = Forward(f.token, f.query)
         /\ f \in ForwardsOf(f.query.pane)
         /\ \A p : f \in ForwardsOf(p) => f.query.pane = p
  BY DEF Forwards, ForwardsOf, Forward

LEMMA LineIs ==
  ASSUME TypeInv
  PROVE  /\ Line \in Seq(Forwards)
         /\ forward = <<>> => Line = <<>>
         /\ \A f \in Forwards : forward = <<f>> => Head(Line) = f /\ Tail(Line) = waiting /\ Line # <<>>
  <1>1. forward \in Seq(Forwards) /\ waiting \in Seq(Forwards) /\ (forward = <<>> => waiting = <<>>)
    BY TrafficTypes
  <1>2. Line \in Seq(Forwards)
    BY <1>1 DEF Line
  <1>3. forward = <<>> => Line = <<>>
    BY <1>1 DEF Line
  <1>4. ASSUME NEW f \in Forwards, forward = <<f>>
        PROVE  Head(Line) = f /\ Tail(Line) = waiting /\ Line # <<>>
    BY <1>1, <1>4 DEF Line
  <1>q. QED
    BY <1>2, <1>3, <1>4

-----------------------------------------------------------------------------
(* A pane that reads on has no question, and what is written to its program *)
(* answers items it has read.  One that waits has one question, about an    *)
(* item it has read, and what is written answers earlier items.             *)

Free(p, x, l, s, n) ==
  Clear(x, QueriesOf(p)) /\ Clear(l, ForwardsOf(p)) /\ Within(p, s, n)
Waits(p, q, x, l, s, n) ==
  /\ q.pane = p /\ 0 < q.at /\ q.at <= n
  /\ \/ /\ Clear(l, ForwardsOf(p))
        /\ \E b \in BOOLEAN : Sole(x, QueriesOf(p), Question(b, q))
     \/ /\ Clear(x, QueriesOf(p))
        /\ \E t \in Nat : Sole(l, ForwardsOf(p), Forward(t, q))
  /\ Within(p, s, q.at - 1)

AskAt(p) ==
  \/ Free(p, inbox, Line, Stream(p), Len(shown[p]))
  \/ /\ p \in open => p \in paused
     /\ \E q \in Units : Waits(p, q, inbox, Line, Stream(p), Len(shown[p]))
AskInv == ~surprised => \A p \in Panes \ disturbed : AskAt(p)

\* the same of the state that follows
LEMMA FreeThen ==
  ASSUME NEW p, NEW x, NEW l, NEW s, NEW n, x = inbox', l = Line', s = Stream(p)', n = Len(shown'[p]),
         Free(p, x, l, s, n)
  PROVE  AskAt(p)'
  <1>1. Free(p, inbox, Line, Stream(p), Len(shown[p]))'
    BY DEF Free, Clear, Within, QueriesOf, ForwardsOf, Units
  <1>q. QED
    BY <1>1 DEF AskAt

LEMMA WaitsThen ==
  ASSUME NEW p, NEW x, NEW l, NEW s, NEW n, x = inbox', l = Line', s = Stream(p)', n = Len(shown'[p]),
         p \in open' => p \in paused', NEW q \in Units, Waits(p, q, x, l, s, n)
  PROVE  AskAt(p)'
  <1>1. Waits(p, q, inbox, Line, Stream(p), Len(shown[p]))'
    <2>1. QueriesOf(p)' = QueriesOf(p) /\ ForwardsOf(p)' = ForwardsOf(p)
      BY DEF QueriesOf, ForwardsOf, Units
    <2>2. Clear(l, ForwardsOf(p)) => Clear(Line, ForwardsOf(p))'
      BY <2>1 DEF Clear
    <2>3. Clear(x, QueriesOf(p)) => Clear(inbox, QueriesOf(p))'
      BY <2>1 DEF Clear
    <2>4. \A b : Sole(x, QueriesOf(p), Question(b, q)) => Sole(inbox, QueriesOf(p), Question(b, q))'
      BY <2>1 DEF Sole, Question
    <2>5. \A t : Sole(l, ForwardsOf(p), Forward(t, q)) => Sole(Line, ForwardsOf(p), Forward(t, q))'
      BY <2>1 DEF Sole, Forward
    <2>6. Within(p, s, q.at - 1) => Within(p, Stream(p), q.at - 1)'
      BY DEF Within
    <2>q. QED
      BY <2>2, <2>3, <2>4, <2>5, <2>6 DEF Waits
  <1>2. \E r \in Units : Waits(p, r, inbox, Line, Stream(p), Len(shown[p]))'
    BY <1>1
  <1>q. QED
    BY <1>2 DEF AskAt, Units

\* The questions of a pane stay where they are.
InboxStays(p) ==
  /\ Clear(inbox, QueriesOf(p)) => Clear(inbox', QueriesOf(p))
  /\ \A y \in QueriesOf(p) : Sole(inbox, QueriesOf(p), y) => Sole(inbox', QueriesOf(p), y)
LineStays(p) ==
  /\ Clear(Line, ForwardsOf(p)) => Clear(Line', ForwardsOf(p))
  /\ \A y \in ForwardsOf(p) : Sole(Line, ForwardsOf(p), y) => Sole(Line', ForwardsOf(p), y)

LEMMA AskKeeps ==
  ASSUME TypeInv, NEW p \in Panes, AskAt(p), InboxStays(p), LineStays(p), shown'[p] = shown[p],
         NEW s, s = Stream(p)', \A n \in Nat : Within(p, Stream(p), n) => Within(p, s, n),
         p \in open' => p \in open, p \in open' /\ p \in paused => p \in paused'
  PROVE  AskAt(p)'
  <1>1. PICK x, l, n : x = inbox' /\ l = Line' /\ n = Len(shown'[p])
    OBVIOUS
  <1>2. n \in Nat /\ n = Len(shown[p])
    <2>1. shown[p] \in Items
      BY WholeTypes
    <2>q. QED
      BY <1>1, <2>1 DEF Items
  <1>3. ASSUME Free(p, inbox, Line, Stream(p), Len(shown[p])) PROVE AskAt(p)'
    <2>1. Free(p, x, l, s, n)
      BY <1>1, <1>2, <1>3 DEF Free, InboxStays, LineStays
    <2>q. QED
      BY <1>1, <2>1, FreeThen
  <1>4. ASSUME p \in open => p \in paused, NEW q \in Units,
               Waits(p, q, inbox, Line, Stream(p), Len(shown[p]))
        PROVE  AskAt(p)'
    <2>1. p \in open' => p \in paused'
      BY <1>4
    <2>2. /\ \A t \in Nat : Forward(t, q) \in ForwardsOf(p)
          /\ \A b \in BOOLEAN : Question(b, q) \in QueriesOf(p)
      BY <1>4 DEF Waits, Forward, ForwardsOf, Question, QueriesOf
    <2>3. q.at - 1 \in Nat
      <3>1. q.at \in Nat /\ 0 < q.at
        BY <1>4, UnitsHave DEF Waits
      <3>q. QED
        BY <3>1
    <2>4. Within(p, s, q.at - 1)
      BY <1>4, <2>3 DEF Waits
    <2>5. Waits(p, q, x, l, s, n)
      BY <1>1, <1>2, <1>4, <2>2, <2>4 DEF Waits, InboxStays, LineStays
    <2>q. QED
      BY <1>1, <2>1, <2>5, WaitsThen
  <1>q. QED
    BY <1>3, <1>4 DEF AskAt

LEMMA AskStays ==
  ASSUME TypeInv, NEW p \in Panes, AskAt(p), InboxStays(p), LineStays(p), shown'[p] = shown[p],
         Stream(p)' = Stream(p),
         p \in open' => p \in open, p \in open' /\ p \in paused => p \in paused'
  PROVE  AskAt(p)'
  <1>1. PICK s : s = Stream(p)'
    OBVIOUS
  <1>2. \A n \in Nat : Within(p, Stream(p), n) => Within(p, s, n)
    BY <1>1
  <1>q. QED
    BY <1>1, <1>2, AskKeeps

\* Of the channel of Screen a message is taken that is not a question of p, and
\* others are added.
LEMMA InboxCarried ==
  ASSUME TypeInv, NEW p, NEW rest \in Seq(Messages),
         rest = inbox \/ (inbox # <<>> /\ Head(inbox) \notin QueriesOf(p) /\ rest = Tail(inbox)),
         NEW a \in Seq(Messages), Clear(a, QueriesOf(p)), NEW x, x = rest \o a
  PROVE  /\ Clear(inbox, QueriesOf(p)) => Clear(x, QueriesOf(p))
         /\ \A y \in QueriesOf(p) : Sole(inbox, QueriesOf(p), y) => Sole(x, QueriesOf(p), y)
  <1>1. PICK T : T = QueriesOf(p)
    OBVIOUS
  <1>2. inbox \in Seq(Messages)
    BY TrafficTypes
  <1>3. /\ Clear(inbox, T) => Clear(rest, T)
        /\ \A y : Sole(inbox, T, y) /\ y \in T => Sole(rest, T, y)
    <2>1. CASE rest = inbox
      BY <2>1
    <2>2. CASE inbox # <<>> /\ Head(inbox) \notin T /\ rest = Tail(inbox)
      <3>1. Clear(inbox, T) => Clear(rest, T)
        BY <1>2, <2>2, Taking
      <3>2. \A y : Sole(inbox, T, y) /\ y \in T =>
              (Head(inbox) = y /\ Clear(rest, T)) \/ (Head(inbox) \notin T /\ Sole(rest, T, y))
        BY <1>2, <2>2, Taking
      <3>q. QED
        BY <2>2, <3>1, <3>2
    <2>q. QED
      BY <1>1, <2>1, <2>2
  <1>4. /\ Clear(rest, T) => Clear(x, T)
        /\ \A y : Sole(rest, T, y) => Sole(x, T, y)
    BY <1>1, Joining
  <1>q. QED
    BY <1>1, <1>3, <1>4

LEMMA StreamIs ==
  ASSUME TypeInv, NEW p \in Panes
  PROVE  /\ received[p] \in Seq(Units) /\ pending[p] \in Seq(Units)
         /\ writer \in Seq(Writes) /\ Sent(p, writer) \in Seq(Units)
         /\ received[p] \o pending[p] \in Seq(Units) /\ Stream(p) \in Seq(Units)
  <1>1. received[p] \in Seq(Units) /\ pending[p] \in Seq(Units) /\ writer \in Seq(Writes)
    BY DEF TypeInv, WriterTypes
  <1>2. Sent(p, writer) \in Seq(Units)
    BY <1>1, SentType
  <1>3. received[p] \o pending[p] \in Seq(Units)
    BY <1>1
  <1>4. Stream(p) \in Seq(Units)
    BY <1>2, <1>3 DEF Stream
  <1>q. QED
    BY <1>1, <1>2, <1>3, <1>4

\* Associative, as one fact about three sequences.
Regroups(a, b, c) == (a \o b) \o c = a \o (b \o c)

LEMMA Grouped ==
  ASSUME NEW S
  PROVE  \A a, b, c \in Seq(S) : Regroups(a, b, c)
  BY Associative DEF Regroups

\* What is added to the channel of the writer is added to the stream.
LEMMA StreamAdds ==
  ASSUME TypeInv, NEW p \in Panes, NEW ws \in Seq(Writes), writer' = writer \o ws,
         UNCHANGED queueVars
  PROVE  Stream(p)' = Stream(p) \o Sent(p, ws)
  <1>1. PICK r : r = received[p] \o pending[p]
    OBVIOUS
  <1>2. PICK w : w = Sent(p, writer)
    OBVIOUS
  <1>3. PICK v : v = Sent(p, ws)
    OBVIOUS
  <1>4. r \in Seq(Units) /\ w \in Seq(Units) /\ v \in Seq(Units)
    BY <1>1, <1>2, <1>3, StreamIs, SentType
  <1>5. PICK u : u = writer'
    OBVIOUS
  <1>6. Sent(p, u) = w \o v
    <2>1. writer \in Seq(Writes)
      BY StreamIs
    <2>q. QED
      BY <1>2, <1>3, <1>5, <2>1, SentConcat
  <1>7. Stream(p)' = r \o Sent(p, u)
    BY <1>1, <1>5 DEF Stream, Sent, queueVars
  <1>8. Stream(p) = r \o w
    BY <1>1, <1>2 DEF Stream
  <1>9. (r \o w) \o v = r \o (w \o v)
    <2>1. Regroups(r, w, v)
      BY ONLY <1>4, Grouped
    <2>q. QED
      BY <2>1, Zenon DEF Regroups
  <1>q. QED
    BY <1>3, <1>6, <1>7, <1>8, <1>9, Zenon

LEMMA WholeIs ==
  ASSUME NEW s \in Items, NEW k \in Items, NEW h \in Items, NEW a \in Items, NEW m \in Nat,
         s \o k \o h \o a = [i \in 1 .. m |-> i]
  PROVE  /\ Len(s) <= m
         /\ \A i \in 1 .. Len(s) : s[i] = i
  <1>1. PICK t : t = k \o (h \o a)
    OBVIOUS
  <1>2. t \in Items
    BY <1>1, ItemsClosed
  <1>3. s \o t = [i \in 1 .. m |-> i]
    <2>1. PICK u, v : u = s \o k /\ v = h \o a
      OBVIOUS
    <2>2. u \in Items /\ v \in Items
      BY <2>1, ItemsClosed
    <2>3. (u \o h) \o a = u \o (h \o a)
      <3>1. u \in Items /\ h \in Items /\ a \in Items
        BY <2>2
      <3>q. QED
        BY ONLY <3>1, ItemsAssociative, SMTT(30)
    <2>4. (s \o k) \o v = s \o (k \o v)
      BY <2>2, ItemsAssociative, SMTT(30)
    <2>q. QED
      BY <1>1, <2>1, <2>3, <2>4, Zenon
  <1>4. PICK n \in Nat, b \in Nat : n = Len(s) /\ b = Len(t)
    BY <1>2 DEF Items
  <1>5. Len(s \o t) = n + b /\ \A i \in 1 .. n + b : (s \o t)[i] = IF i <= n THEN s[i] ELSE t[i - n]
    BY <1>2, <1>4, ItemsIndex
  <1>6. n + b = m
    <2>1. Len([i \in 1 .. m |-> i]) = m
      OBVIOUS
    <2>q. QED
      BY <1>3, <1>5, <2>1
  <1>7. ASSUME NEW i \in 1 .. n PROVE s[i] = i
    <2>1. i \in 1 .. m /\ i \in 1 .. n + b /\ i <= n
      BY <1>4, <1>6
    <2>2. [j \in 1 .. m |-> j][i] = i
      BY <2>1
    <2>q. QED
      BY <1>3, <1>5, <2>1, <2>2
  <1>q. QED
    BY <1>4, <1>6, <1>7

\* A pane that is open has shown the first of its items, in their order.
LEMMA ShownIs ==
  ASSUME TypeInv, NEW p \in Panes, KeptAt(p), p \in open \ disturbed
  PROVE  /\ Len(shown[p]) <= Len(printed[p])
         /\ \A i \in 1 .. Len(shown[p]) : shown[p][i] = i
  <1>1. PICK s, k, h, a, m : /\ s = shown[p] /\ k = buffered[p] /\ h = FlattenSeq(held[p])
                             /\ a = Arriving(p, inbox) /\ m = Len(printed[p])
    OBVIOUS
  <1>2. s \in Items /\ k \in Items /\ h \in Items /\ a \in Items /\ m \in Nat
    BY <1>1, WholeTypes
  <1>3. s \o k \o h \o a = [i \in 1 .. m |-> i]
    BY <1>1 DEF KeptAt, Whole
  <1>4. Len(s) <= m /\ \A i \in 1 .. Len(s) : s[i] = i
    BY <1>2, <1>3, WholeIs
  <1>q. QED
    BY <1>1, <1>4

\* The questions of another pane are not touched by one that parses.
LEMMA AsksOf ==
  ASSUME NEW p \in Panes, NEW x \in Nat
  PROVE  /\ Asks(p, x) \in Seq(Messages)
         /\ \A t : t # p => Clear(Asks(p, x), QueriesOf(t))
         /\ Forwarded(p, x) = <<>> => Asks(p, x) = <<>>
         /\ Forwarded(p, x) # <<>> => KindOf(p, x) # "sync"
         /\ Forwarded(p, x) # <<>> /\ KindOf(p, x) # "pair" =>
              \E b \in BOOLEAN : Asks(p, x) = <<Question(b, Query(p, x, 1))>>
  <1>1. Asks(p, x) \in Seq(Messages)
    BY AsksType
  <1>2. PICK f : f = Forwarded(p, x)
    OBVIOUS
  <1>3. f \in Seq(Units) /\ \A k \in 1 .. Len(f) : f[k].pane = p
    <2>1. f \in Seq(Units)
      BY <1>2, ForwardedType
    <2>2. \A part \in Nat : Query(p, x, part) \in Units /\ Query(p, x, part).pane = p
      BY DEF Query, Units
    <2>3. \/ f = <<>> \/ f = <<Query(p, x, 1)>> \/ f = <<Query(p, x, 1), Query(p, x, 2)>>
      BY <1>2 DEF Forwarded
    <2>4. \A k \in 1 .. Len(f) : f[k].pane = p
      BY <2>2, <2>3
    <2>q. QED
      BY <2>1, <2>4
  <1>4. ASSUME NEW t, t # p PROVE Clear(Asks(p, x), QueriesOf(t))
    <2>1. Len(Asks(p, x)) = Len(f) /\ \A k \in 1 .. Len(f) : Asks(p, x)[k].query = f[k]
      BY <1>2, <1>3 DEF Asks
    <2>2. \A m \in QueriesOf(t) : m.query.pane = t
      BY DEF QueriesOf
    <2>q. QED
      BY <1>3, <1>4, <2>1, <2>2 DEF Clear
  <1>5. f = <<>> => Asks(p, x) = <<>>
    BY <1>2 DEF Asks
  <1>6. f # <<>> => KindOf(p, x) # "sync"
    BY <1>2 DEF Forwarded
  <1>7. ASSUME f # <<>>, KindOf(p, x) # "pair"
        PROVE  \E b \in BOOLEAN : Asks(p, x) = <<Question(b, Query(p, x, 1))>>
    <2>1. f = <<Query(p, x, 1)>>
      BY <1>2, <1>7 DEF Forwarded
    <2>2. PICK b \in BOOLEAN : b = (KindOf(p, x) = "mode")
      OBVIOUS
    <2>3. Len(f) = 1 /\ f[1] = Query(p, x, 1)
      BY <2>1
    <2>4. Asks(p, x) = [k \in 1 .. 1 |-> Question(b, Query(p, x, 1))]
      BY <1>2, <2>2, <2>3 DEF Asks, Question
    <2>q. QED
      BY <2>4
  <1>q. QED
    BY <1>1, <1>2, <1>4, <1>5, <1>6, <1>7

\* What a pane writes when it parses d behind what it has shown: the answers of
\* these items, whatever they are.
LEMMA StreamParses ==
  ASSUME TypeInv, NEW p \in Panes, NEW d \in Items, NEW answers \in Seq(Units),
         writer' = writer \o WriteTo(p, answers) \o Answers(p, d), UNCHANGED queueVars
  PROVE  /\ Stream(p)' = (Stream(p) \o answers) \o Sent(p, Answers(p, d))
         /\ \A t \in Panes \ {p} : Stream(t)' = Stream(t)
  <1>1. PICK w, v : w = WriteTo(p, answers) /\ v = Answers(p, d)
    OBVIOUS
  <1>2. w \in Seq(Writes) /\ v \in Seq(Writes) /\ writer \in Seq(Writes)
    BY <1>1, WriteToType, AnswersType, StreamIs
  <1>3. w \o v \in Seq(Writes) /\ writer' = writer \o (w \o v)
    <2>1. (writer \o w) \o v = writer \o (w \o v)
      <3>1. Regroups(writer, w, v)
        BY ONLY <1>2, Grouped
      <3>q. QED
        BY <3>1, Zenon DEF Regroups
    <2>2. w \o v \in Seq(Writes)
      BY <1>2
    <2>q. QED
      BY <1>1, <2>1, <2>2, Zenon
  <1>4. ASSUME NEW t \in Panes
        PROVE  Stream(t)' = Stream(t) \o (Sent(t, w) \o Sent(t, v))
    <2>1. Sent(t, w \o v) = Sent(t, w) \o Sent(t, v)
      BY <1>2, SentConcat
    <2>2. PICK ws \in Seq(Writes) : ws = w \o v
      BY <1>3
    <2>3. Stream(t)' = Stream(t) \o Sent(t, ws)
      BY <1>3, <2>2, StreamAdds
    <2>q. QED
      BY <2>1, <2>2, <2>3, Zenon
  <1>5. Stream(p)' = (Stream(p) \o answers) \o Sent(p, Answers(p, d))
    <2>1. Sent(p, w) = answers
      BY <1>1, SentWriteTo
    <2>2. PICK s, u : s = Stream(p) /\ u = Sent(p, v)
      OBVIOUS
    <2>3. s \in Seq(Units) /\ u \in Seq(Units) /\ answers \in Seq(Units)
      BY <1>2, <2>2, StreamIs, SentType
    <2>4. (s \o answers) \o u = s \o (answers \o u)
      <3>1. Regroups(s, answers, u)
        BY ONLY <2>3, Grouped
      <3>q. QED
        BY <3>1, Zenon DEF Regroups
    <2>q. QED
      BY <1>1, <1>4, <2>1, <2>2, <2>4, Zenon
  <1>6. ASSUME NEW t \in Panes \ {p} PROVE Stream(t)' = Stream(t)
    <2>1. Sent(t, w) = <<>>
      BY <1>1, SentWriteTo
    <2>2. Sent(t, v) = <<>>
      BY <1>1, AnswersElsewhere
    <2>3. PICK s \in Seq(Units) : s = Stream(t)
      BY StreamIs
    <2>4. s \o (<<>> \o <<>>) = s
      OBVIOUS
    <2>q. QED
      BY <1>4, <2>1, <2>2, <2>3, <2>4, Zenon
  <1>q. QED
    BY <1>5, <1>6

\* A pane that has no question and reads on has none afterwards, or stops at one.
LEMMA Goes ==
  ASSUME TypeInv, TypeInv', KeptInv', Single, NEW p \in Panes, p \in open' \ disturbed',
         NEW items \in Items, NEW kept \in Items, NEW answers \in Seq(Units),
         NEW rest \in Seq(Messages), NEW n \in 0 .. Len(items),
         Did(p, items, FALSE, kept, answers, rest, n),
         UNCHANGED <<queueVars, printed>>,
         Clear(rest, QueriesOf(p)), Clear(Line', ForwardsOf(p)),
         Within(p, Stream(p) \o answers, Len(shown[p]))
  PROVE  AskAt(p)'
  <1>1. PICK d : d = SubSeq(items, 1, n)
    OBVIOUS
  <1>2. PICK s : s = shown[p]
    OBVIOUS
  <1>3. PICK z : z = shown'[p]
    OBVIOUS
  <1>4. /\ d \in Items /\ Len(d) = n /\ n \in Nat /\ Len(items) \in Nat
        /\ \A i \in 1 .. n : d[i] = items[i]
    BY <1>1 DEF Items
  <1>5. s \in Items /\ z = s \o d
    <2>1. shown \in [Panes -> Items]
      BY DEF TypeInv, PaneTypes
    <2>q. QED
      BY <1>1, <1>2, <1>3, <2>1 DEF Did
  <1>6. PICK l \in Nat : l = Len(s)
    BY <1>5 DEF Items
  <1>7. /\ Len(z) = l + n /\ \A i \in 1 .. n : z[l + i] = d[i] /\ l + i \in 1 .. l + n
    <2>1. Len(z) = l + n /\ \A i \in 1 .. l + n : z[i] = IF i <= l THEN s[i] ELSE d[i - l]
      BY <1>4, <1>5, <1>6, ItemsIndex
    <2>2. \A i \in 1 .. n : l + i \in 1 .. l + n /\ ~(l + i <= l) /\ (l + i) - l = i
      BY <1>4, <1>6
    <2>q. QED
      BY <2>1, <2>2
  <1>8. /\ l + n <= Len(printed[p]) /\ \A i \in 1 .. l + n : z[i] = i
    <2>1. KeptAt(p)'
      BY DEF KeptInv
    <2>2. PICK k, h, a, m : /\ k = buffered'[p] /\ h = FlattenSeq(held'[p])
                            /\ a = Arriving(p, inbox') /\ m = Len(printed'[p])
      OBVIOUS
    <2>3. z \in Items /\ k \in Items /\ h \in Items /\ a \in Items /\ m \in Nat
      <3>1. z \in Items
        BY <1>4, <1>5, ItemsClosed
      <3>2. k \in Items /\ held'[p] \in Seq(Items) /\ inbox' \in Seq(Messages)
            /\ printed'[p] \in Seq(Kinds)
        BY <2>2 DEF TypeInv, PaneTypes, InboxTypes
      <3>3. h \in Items
        BY <2>2, <3>2, FlattenType DEF Items
      <3>4. PICK x \in Seq(Messages) : x = inbox'
        BY <3>2
      <3>5. Arriving(p, x) \in Items
        BY ArrivingType
      <3>6. a \in Items
        BY <2>2, <3>4, <3>5
      <3>q. QED
        BY <2>2, <3>1, <3>2, <3>3, <3>6
    <2>4. z \o k \o h \o a = [i \in 1 .. m |-> i]
      <3>1. Whole(p)' = [i \in 1 .. Len(printed[p]) |-> i]'
        BY <2>1 DEF KeptAt
      <3>q. QED
        BY <1>3, <2>2, <3>1 DEF Whole, Arriving, Output
    <2>5. Len(z) <= m /\ \A i \in 1 .. Len(z) : z[i] = i
      BY <2>3, <2>4, WholeIs, SMTT(30)
    <2>q. QED
      BY <1>7, <2>2, <2>5
  <1>9. \A i \in 1 .. n : d[i] = l + i
    BY <1>7, <1>8
  <1>10. PICK u : u = Sent(p, Answers(p, d))
    OBVIOUS
  <1>11. u \in Seq(Units)
    <2>1. Answers(p, d) \in Seq(Writes)
      BY <1>4, AnswersType
    <2>q. QED
      BY <1>10, <2>1, SentType
  <1>12. OwnReplies(p, d, u)
    <2>1. Rising(d)
      <3>1. \A i, j \in 1 .. n : i < j => l + i < l + j
        BY <1>4, <1>6
      <3>q. QED
        BY <1>4, <1>9, <3>1 DEF Rising
    <2>q. QED
      BY <1>4, <1>10, <2>1, AnswersRise
  <1>13. PICK r : r = Stream(p) \o answers
    OBVIOUS
  <1>14. r \in Seq(Units) /\ Stream(p)' = r \o u
    <2>1. writer' = writer \o WriteTo(p, answers) \o Answers(p, d)
      BY <1>1 DEF Did
    <2>2. Stream(p)' = (Stream(p) \o answers) \o Sent(p, Answers(p, d))
      BY <1>4, <2>1, StreamParses
    <2>3. r \in Seq(Units)
      BY <1>13, StreamIs
    <2>q. QED
      BY <1>10, <1>13, <2>2, <2>3, Zenon
  <1>15. \A k \in 1 .. Len(u) : l < u[k].at
    <2>1. ASSUME NEW k \in 1 .. Len(u) PROVE l < u[k].at
      <3>1. PICK i \in 1 .. n : u[k].at = d[i]
        BY <1>4, <1>12 DEF OwnReplies
      <3>2. u[k].at = l + i /\ l < l + i
        BY <1>4, <1>6, <1>9, <3>1
      <3>q. QED
        BY <3>2
    <2>q. QED
      BY <2>1
  <1>16. ASSUME NEW m \in Nat, l <= m, \A k \in 1 .. Len(u) : u[k].at <= m
         PROVE  Within(p, r \o u, m)
    <2>1. Within(p, u, m)
      BY <1>12, <1>16 DEF Within, OwnReplies
    <2>2. Within(p, r, l)
      BY <1>2, <1>6, <1>13
    <2>q. QED
      BY <1>11, <1>14, <1>15, <1>16, <2>1, <2>2, WithinThen
  <1>17. CASE n = 0 \/ Forwarded(p, items[n]) = <<>>
    <2>1. inbox' = rest
      <3>1. inbox' = rest \o <<>>
        <4>1. CASE n = 0
          BY <4>1 DEF Did
        <4>2. CASE n # 0 /\ Forwarded(p, items[n]) = <<>>
          <5>1. items[n] \in Nat
            BY <4>2 DEF Items
          <5>2. Asks(p, items[n]) = <<>>
            BY <4>2, <5>1, AsksOf
          <5>q. QED
            BY <4>2, <5>2 DEF Did
        <4>q. QED
          BY <1>17, <4>1, <4>2
      <3>q. QED
        BY <3>1
    <2>2. l + n \in Nat /\ l <= l + n /\ \A k \in 1 .. Len(u) : u[k].at <= l + n
      <3>1. ASSUME NEW k \in 1 .. Len(u) PROVE u[k].at <= l + n
        <4>1. PICK i \in 1 .. n : u[k].at = d[i]
          BY <1>4, <1>12 DEF OwnReplies
        <4>2. u[k].at = l + i /\ l + i <= l + n
          BY <1>4, <1>6, <1>9, <4>1
        <4>q. QED
          BY <4>2
      <3>q. QED
        BY <1>4, <1>6, <3>1
    <2>3. Within(p, r \o u, l + n)
      BY <1>16, <2>2
    <2>4. PICK x, y, v, m : x = inbox' /\ y = Line' /\ v = Stream(p)' /\ m = Len(shown'[p])
      OBVIOUS
    <2>5. Free(p, x, y, v, m)
      <3>1. v = r \o u /\ m = l + n
        BY <1>3, <1>7, <1>14, <2>4
      <3>q. QED
        BY <2>1, <2>3, <2>4, <3>1 DEF Free
    <2>q. QED
      BY <2>4, <2>5, FreeThen
  <1>18. CASE n # 0 /\ Forwarded(p, items[n]) # <<>>
    <2>1. n \in 1 .. n /\ items[n] = l + n /\ l + n \in Nat /\ n \in 1 .. Len(items)
      BY <1>4, <1>6, <1>9, <1>18
    <2>2. KindOf(p, items[n]) # "pair" /\ KindOf(p, items[n]) # "sync"
      <3>1. l + n \in 1 .. Len(printed[p])
        <4>1. Len(printed[p]) \in Nat
          BY WholeTypes
        <4>q. QED
          BY <1>4, <1>6, <1>8, <1>18, <4>1
      <3>2. printed[p][l + n] # "pair"
        BY <3>1 DEF Single, Plain
      <3>q. QED
        BY <1>18, <2>1, <3>2, AsksOf DEF KindOf
    <2>3. PICK b \in BOOLEAN : Asks(p, items[n]) = <<Question(b, Query(p, items[n], 1))>>
      BY <1>18, <2>1, <2>2, AsksOf
    <2>4. PICK q : q = Query(p, items[n], 1)
      OBVIOUS
    <2>5. q \in Units /\ q.pane = p /\ q.at = l + n
      BY <2>1, <2>4 DEF Query, Units
    <2>6. PICK g : g = Question(b, q)
      OBVIOUS
    <2>7. g \in Messages
      BY <2>5, <2>6, QuestionIs
    <2>8. inbox' = Append(rest, g)
      <3>1. inbox' = rest \o <<g>>
        BY <1>18, <2>3, <2>4, <2>6 DEF Did
      <3>q. QED
        BY <2>7, <3>1
    <2>9. l + n - 1 \in Nat /\ l <= l + n - 1 /\ \A k \in 1 .. Len(u) : u[k].at <= l + n - 1
      <3>1. ASSUME NEW k \in 1 .. Len(u) PROVE u[k].at <= l + n - 1
        <4>1. PICK i \in 1 .. n : u[k].at = d[i] /\ KindOf(p, d[i]) = "sync"
          BY <1>4, <1>12 DEF OwnReplies
        <4>2. i # n
          BY <1>4, <2>1, <2>2, <4>1
        <4>3. u[k].at = l + i /\ l + i <= l + n - 1
          BY <1>4, <1>6, <1>9, <4>1, <4>2
        <4>q. QED
          BY <4>3
      <3>q. QED
        BY <1>4, <1>6, <1>18, <3>1
    <2>10. Within(p, r \o u, l + n - 1)
      BY <1>16, <2>9
    <2>11. PICK x, y, v, m : x = inbox' /\ y = Line' /\ v = Stream(p)' /\ m = Len(shown'[p])
      OBVIOUS
    <2>12. Waits(p, q, x, y, v, m)
      <3>1. v = r \o u /\ m = l + n /\ x = Append(rest, g)
        BY <1>3, <1>7, <1>14, <2>8, <2>11
      <3>2. PICK T : T = QueriesOf(p)
        OBVIOUS
      <3>3. Sole(x, T, g)
        BY <2>7, <3>1, <3>2, Appending
      <3>4. 0 < q.at /\ q.at <= m
        BY <1>4, <1>6, <1>18, <2>5, <3>1
      <3>5. Within(p, v, q.at - 1)
        BY <2>5, <2>10, <3>1
      <3>q. QED
        BY <2>5, <2>6, <2>11, <3>2, <3>3, <3>4, <3>5 DEF Waits
    <2>13. p \in paused'
      BY <1>18 DEF Did
    <2>q. QED
      BY <2>5, <2>11, <2>12, <2>13, WaitsThen
  <1>q. QED
    BY <1>17, <1>18

\* Nothing is added to the line, or to the channel only what is no question of p.
LEMMA LineSame ==
  ASSUME UNCHANGED <<forward, waiting>>, NEW p
  PROVE  LineStays(p)
  <1>1. Line' = Line
    BY DEF Line
  <1>q. QED
    BY <1>1 DEF LineStays

\* What is left of the channel of Screen without a message that is no question of p.
Rest(p, rest) ==
  /\ rest \in Seq(Messages)
  /\ rest = inbox \/ (inbox # <<>> /\ Head(inbox) \notin QueriesOf(p) /\ rest = Tail(inbox))

\* Another pane than the one that parses.
LEMMA GoesElsewhere ==
  ASSUME TypeInv, NEW p \in Panes, NEW items \in Items, NEW b \in BOOLEAN, NEW kept,
         NEW answers \in Seq(Units), NEW rest, NEW n \in 0 .. Len(items),
         Did(p, items, b, kept, answers, rest, n), UNCHANGED <<queueVars, open>>,
         NEW t \in Panes \ {p}, AskAt(t), Rest(t, rest), LineStays(t)
  PROVE  AskAt(t)'
  <1>1. PICK a : a = IF n = 0 THEN <<>> ELSE Asks(p, items[n])
    OBVIOUS
  <1>2. a \in Seq(Messages) /\ Clear(a, QueriesOf(t))
    <2>1. CASE n = 0
      BY <1>1, <2>1 DEF Clear
    <2>2. CASE n # 0
      <3>1. items[n] \in Nat
        BY <2>2 DEF Items
      <3>q. QED
        BY <1>1, <2>2, <3>1, AsksOf
    <2>q. QED
      BY <2>1, <2>2
  <1>3. InboxStays(t)
    <2>1. inbox' = rest \o a
      BY <1>1 DEF Did
    <2>2. PICK x : x = inbox'
      OBVIOUS
    <2>3. /\ Clear(inbox, QueriesOf(t)) => Clear(x, QueriesOf(t))
          /\ \A y \in QueriesOf(t) : Sole(inbox, QueriesOf(t), y) => Sole(x, QueriesOf(t), y)
      BY <1>2, <2>1, <2>2, InboxCarried DEF Rest
    <2>q. QED
      BY <2>2, <2>3 DEF InboxStays
  <1>4. shown'[t] = shown[t] /\ (t \in paused => t \in paused')
    BY DEF Did, TypeInv, PaneTypes
  <1>5. Stream(t)' = Stream(t)
    <2>1. PICK d \in Items : d = SubSeq(items, 1, n)
      BY ItemsSplit
    <2>2. writer' = writer \o WriteTo(p, answers) \o Answers(p, d)
      BY <2>1 DEF Did
    <2>q. QED
      BY <2>2, StreamParses
  <1>q. QED
    BY <1>3, <1>4, <1>5, AskStays

\* A pane is given output, which it parses or buffers.
LEMMA ParsesAsk ==
  ASSUME TypeInv, TypeInv', KeptInv', Single, NEW p \in Panes, NEW rest, Parses(p, rest),
         \A t \in Panes : Rest(t, rest),
         UNCHANGED <<queueVars, printed, open, forward, waiting, disturbed>>,
         \A t \in Panes \ disturbed : AskAt(t), NEW t \in Panes \ disturbed
  PROVE  AskAt(t)'
  <1>1. PICK items \in Items, kept \in Items, b \in BOOLEAN :
          (b <=> p \in paused) /\ Call(p, items, b, kept, <<>>, rest)
    BY DEF Parses
  <1>2. p \in open /\ <<>> \in Seq(Units) /\ rest \in Seq(Messages)
    BY DEF Parses, Rest
  <1>3. PICK n \in 0 .. Len(items) : Did(p, items, b, kept, <<>>, rest, n)
    BY <1>1, ProcessIs DEF Call
  <1>4. \A x : LineStays(x)
    BY LineSame
  <1>5. CASE t # p
    BY <1>2, <1>3, <1>4, <1>5, GoesElsewhere
  <1>6. CASE t = p /\ b
    <2>1. n = 0 /\ SubSeq(items, 1, n) = <<>> /\ <<>> \in Items
      BY <1>3, <1>6, ItemsSplit, ItemsEmpty DEF Did
    <2>2. shown'[p] = shown[p] /\ p \in paused'
      <3>1. shown[p] \in Items /\ shown \in [Panes -> Items]
        BY DEF TypeInv, PaneTypes
      <3>2. shown'[p] = shown[p] \o <<>>
        BY <1>3, <2>1, <3>1 DEF Did
      <3>3. shown[p] \o <<>> = shown[p]
        BY <3>1, ItemsEmpty
      <3>q. QED
        BY <1>3, <1>6, <3>2, <3>3 DEF Did
    <2>3. Stream(p)' = Stream(p)
      <3>1. writer' = writer \o WriteTo(p, <<>>) \o Answers(p, <<>>)
        BY <1>3, <2>1 DEF Did
      <3>2. Stream(p)' = (Stream(p) \o <<>>) \o Sent(p, Answers(p, <<>>))
        BY <1>2, <2>1, <3>1, StreamParses
      <3>3. PICK s \in Seq(Units) : s = Stream(p)
        BY StreamIs
      <3>4. (s \o <<>>) \o <<>> = s
        OBVIOUS
      <3>q. QED
        BY <3>2, <3>3, <3>4, AnswersEmpty, Zenon
    <2>4. InboxStays(p)
      <3>1. inbox' = rest \o <<>>
        BY <1>3, <2>1 DEF Did
      <3>2. PICK x, a : x = inbox' /\ a = <<>>
        OBVIOUS
      <3>3. a \in Seq(Messages) /\ Clear(a, QueriesOf(p))
        BY <3>2 DEF Clear
      <3>4. /\ Clear(inbox, QueriesOf(p)) => Clear(x, QueriesOf(p))
            /\ \A y \in QueriesOf(p) : Sole(inbox, QueriesOf(p), y) => Sole(x, QueriesOf(p), y)
        BY <1>6, <3>1, <3>2, <3>3, InboxCarried DEF Rest
      <3>q. QED
        BY <3>2, <3>4 DEF InboxStays
    <2>q. QED
      BY <1>2, <1>4, <1>6, <2>2, <2>3, <2>4, AskStays
  <1>7. CASE t = p /\ ~b
    <2>1. Did(p, items, FALSE, kept, <<>>, rest, n)
      BY <1>3, <1>7
    <2>2. Free(p, inbox, Line, Stream(p), Len(shown[p]))
      BY <1>1, <1>2, <1>7 DEF AskAt
    <2>3. Clear(rest, QueriesOf(p))
      <3>1. PICK x, a : x = rest /\ a = <<>>
        OBVIOUS
      <3>2. a \in Seq(Messages) /\ Clear(a, QueriesOf(p)) /\ x = rest \o a
        BY <1>2, <3>1 DEF Clear
      <3>3. Clear(inbox, QueriesOf(p)) => Clear(x, QueriesOf(p))
        BY <1>7, <3>2, InboxCarried DEF Rest
      <3>q. QED
        BY <2>2, <3>1, <3>3 DEF Free
    <2>4. Clear(Line', ForwardsOf(p))
      BY <1>4, <2>2 DEF Free, LineStays
    <2>5. Within(p, Stream(p) \o <<>>, Len(shown[p]))
      <3>1. PICK s \in Seq(Units) : s = Stream(p)
        BY StreamIs
      <3>2. s \o <<>> = s
        OBVIOUS
      <3>q. QED
        BY <2>2, <3>1, <3>2 DEF Free
    <2>q. QED
      BY <1>2, <1>7, <2>1, <2>3, <2>4, <2>5, Goes
  <1>q. QED
    BY <1>5, <1>6, <1>7

\* The answer q is written, or nothing.
AnswersOf(q) == {<<>>, <<q>>}

LEMMA AnswersWithin ==
  ASSUME TypeInv, NEW p \in Panes, NEW q \in Units, q.pane = p, 0 < q.at, q.at <= Len(shown[p]),
         Within(p, Stream(p), q.at - 1), NEW answers \in AnswersOf(q)
  PROVE  answers \in Seq(Units) /\ Within(p, Stream(p) \o answers, Len(shown[p]))
  <1>1. PICK n \in Nat : n = Len(shown[p])
    BY WholeTypes DEF Items
  <1>2. PICK m \in Nat : m = q.at - 1 /\ m < q.at /\ m <= n /\ q.at \in Nat
    <2>1. q.at \in Nat
      BY UnitsHave
    <2>q. QED
      BY <1>1, <2>1
  <1>3. PICK s \in Seq(Units) : s = Stream(p)
    BY StreamIs
  <1>4. /\ answers \in Seq(Units) /\ Within(p, answers, n)
        /\ \A i \in 1 .. Len(answers) : m < answers[i].at
    <2>1. CASE answers = <<>>
      BY <2>1, WithinFacts
    <2>2. CASE answers = <<q>>
      <3>1. answers \in Seq(Units) /\ Within(p, answers, q.at)
        BY <2>2, WithinFacts, SMTT(30)
      <3>2. Within(p, answers, n)
        BY <1>1, <1>2, <3>1, WithinFacts
      <3>3. \A i \in 1 .. Len(answers) : answers[i] = q
        BY <2>2
      <3>q. QED
        BY <1>2, <3>1, <3>2, <3>3
    <2>q. QED
      BY <2>1, <2>2 DEF AnswersOf
  <1>5. Within(p, s \o answers, n)
    <2>1. Within(p, s, m)
      BY <1>2, <1>3
    <2>q. QED
      BY <1>2, <1>4, <2>1, WithinThen
  <1>q. QED
    BY <1>1, <1>3, <1>4, <1>5

\* A pane goes on behind its question, which is answered or given up.
LEMMA ResumesAsk ==
  ASSUME TypeInv, TypeInv', KeptInv', Single, NEW p \in Panes, NEW q \in Units,
         NEW answers \in AnswersOf(q), NEW rest \in Seq(Messages), Resumes(p, answers, rest),
         UNCHANGED <<queueVars, printed, open, disturbed>>, p \notin disturbed,
         q.pane = p, 0 < q.at, q.at <= Len(shown[p]), Within(p, Stream(p), q.at - 1),
         Clear(rest, QueriesOf(p)), Clear(Line', ForwardsOf(p))
  PROVE  AskAt(p)'
  <1>1. answers \in Seq(Units) /\ Within(p, Stream(p) \o answers, Len(shown[p]))
    BY AnswersWithin
  <1>2. CASE p \in open /\ Call(p, buffered[p], FALSE, <<>>, answers, rest)
    <2>1. PICK items \in Items, kept \in Items : items = buffered[p] /\ kept = <<>>
      BY WholeTypes, ItemsEmpty
    <2>2. Process(p, items, FALSE, kept, answers, rest)
      BY <1>2, <2>1 DEF Call
    <2>3. PICK n \in 0 .. Len(items) : Did(p, items, FALSE, kept, answers, rest, n)
      BY <2>2, ProcessIs
    <2>q. QED
      BY <1>1, <1>2, <2>3, Goes
  <1>3. CASE /\ p \notin open /\ inbox' = rest /\ UNCHANGED <<shown, paused>>
             /\ writer' = writer \o WriteTo(p, answers)
    <2>1. PICK ws \in Seq(Writes) : ws = WriteTo(p, answers)
      BY <1>1, WriteToType
    <2>2. Stream(p)' = Stream(p) \o Sent(p, ws)
      BY <1>3, <2>1, StreamAdds
    <2>3. Sent(p, ws) = answers
      BY <1>1, <2>1, SentWriteTo
    <2>4. PICK x, l, s, n : x = inbox' /\ l = Line' /\ s = Stream(p)' /\ n = Len(shown'[p])
      OBVIOUS
    <2>5. Free(p, x, l, s, n)
      BY <1>1, <1>3, <2>2, <2>3, <2>4 DEF Free
    <2>q. QED
      BY <2>4, <2>5, FreeThen
  <1>q. QED
    BY <1>2, <1>3 DEF Resumes

LEMMA ResumesElsewhere ==
  ASSUME TypeInv, NEW p \in Panes, NEW answers \in Seq(Units), NEW rest,
         Resumes(p, answers, rest), UNCHANGED <<queueVars, open>>,
         NEW t \in Panes \ {p}, AskAt(t), Rest(t, rest), LineStays(t)
  PROVE  AskAt(t)'
  <1>1. CASE p \in open /\ Call(p, buffered[p], FALSE, <<>>, answers, rest)
    <2>1. PICK items \in Items, kept \in Items : items = buffered[p] /\ kept = <<>>
      BY WholeTypes, ItemsEmpty
    <2>2. Process(p, items, FALSE, kept, answers, rest)
      BY <1>1, <2>1 DEF Call
    <2>3. PICK n \in 0 .. Len(items) : Did(p, items, FALSE, kept, answers, rest, n)
      BY <2>2, ProcessIs
    <2>q. QED
      BY <2>3, GoesElsewhere
  <1>2. CASE /\ p \notin open /\ inbox' = rest /\ UNCHANGED <<shown, paused>>
             /\ writer' = writer \o WriteTo(p, answers)
    <2>1. PICK ws \in Seq(Writes) : ws = WriteTo(p, answers)
      BY WriteToType
    <2>2. Stream(t)' = Stream(t) \o Sent(t, ws)
      BY <1>2, <2>1, StreamAdds
    <2>3. Sent(t, ws) = <<>>
      BY <2>1, SentWriteTo
    <2>4. Stream(t)' = Stream(t)
      <3>1. PICK s \in Seq(Units) : s = Stream(t)
        BY StreamIs
      <3>2. s \o <<>> = s
        OBVIOUS
      <3>q. QED
        BY <2>2, <2>3, <3>1, <3>2, Zenon
    <2>5. InboxStays(t)
      <3>1. PICK x, a : x = rest /\ a = <<>>
        OBVIOUS
      <3>2. a \in Seq(Messages) /\ Clear(a, QueriesOf(t)) /\ x = rest \o a
        BY <3>1 DEF Clear, Rest
      <3>3. /\ Clear(inbox, QueriesOf(t)) => Clear(x, QueriesOf(t))
            /\ \A y \in QueriesOf(t) : Sole(inbox, QueriesOf(t), y) => Sole(x, QueriesOf(t), y)
        BY <3>2, InboxCarried DEF Rest
      <3>q. QED
        BY <1>2, <3>1, <3>3 DEF InboxStays
    <2>q. QED
      BY <1>2, <2>4, <2>5, AskStays
  <1>q. QED
    BY <1>1, <1>2 DEF Resumes

\* The first message or the first of the line is the question of p.
LEMMA FirstInbox ==
  ASSUME TypeInv, NEW p \in Panes, AskAt(p), inbox # <<>>, Head(inbox) \in QueriesOf(p)
  PROVE  \E q \in Units :
           /\ q = Head(inbox).query /\ q.pane = p /\ 0 < q.at /\ q.at <= Len(shown[p])
           /\ p \in open => p \in paused
           /\ Within(p, Stream(p), q.at - 1)
           /\ Clear(Tail(inbox), QueriesOf(p)) /\ Clear(Line, ForwardsOf(p))
  <1>1. PICK T, u, m : T = QueriesOf(p) /\ u = Tail(inbox) /\ m = Head(inbox)
    OBVIOUS
  <1>2. inbox \in Seq(Messages) /\ m \in Messages
    BY <1>1, TrafficTypes
  <1>3. ~Clear(inbox, T)
    <2>1. Clear(inbox, T) => Head(inbox) \notin T
      BY <1>1, <1>2, Taking
    <2>q. QED
      BY <1>1, <2>1
  <1>4. PICK q \in Units : /\ Waits(p, q, inbox, Line, Stream(p), Len(shown[p]))
                           /\ p \in open => p \in paused
    BY <1>1, <1>3 DEF AskAt, Free
  <1>5. PICK b \in BOOLEAN : Sole(inbox, T, Question(b, q)) /\ Clear(Line, ForwardsOf(p))
    BY <1>1, <1>3, <1>4 DEF Waits
  <1>6. PICK y : y = Question(b, q)
    OBVIOUS
  <1>7. y \in T /\ y.query = q
    <2>1. q.pane = p
      BY <1>4 DEF Waits
    <2>q. QED
      BY <1>1, <1>6, <2>1, QuestionIs
  <1>8. m = y /\ Clear(u, T)
    <2>1. Sole(inbox, T, y)
      BY <1>5, <1>6
    <2>2. (Head(inbox) = y /\ Clear(u, T)) \/ Head(inbox) \notin T
      BY <1>1, <1>2, <1>7, <2>1, Taking
    <2>q. QED
      BY <1>1, <2>2
  <1>q. QED
    BY <1>1, <1>4, <1>5, <1>7, <1>8 DEF Waits

LEMMA FirstLine ==
  ASSUME TypeInv, NEW p \in Panes, AskAt(p), NEW f \in Forwards, forward = <<f>>,
         f.query.pane = p
  PROVE  \E q \in Units :
           /\ q = f.query /\ 0 < q.at /\ q.at <= Len(shown[p])
           /\ Within(p, Stream(p), q.at - 1)
           /\ Clear(inbox, QueriesOf(p)) /\ Clear(Tail(Line), ForwardsOf(p))
  <1>1. PICK T, u, l : T = ForwardsOf(p) /\ u = Tail(Line) /\ l = Line
    OBVIOUS
  <1>2. l \in Seq(Forwards) /\ l # <<>> /\ Head(l) = f /\ f \in T
    BY <1>1, LineIs, ForwardOf
  <1>3. ~Clear(l, T)
    <2>1. Clear(l, T) => Head(l) \notin T
      BY <1>1, <1>2, Taking
    <2>q. QED
      BY <1>2, <2>1
  <1>4. PICK q \in Units : Waits(p, q, inbox, Line, Stream(p), Len(shown[p]))
    BY <1>1, <1>3 DEF AskAt, Free
  <1>5. PICK t \in Nat : Sole(l, T, Forward(t, q)) /\ Clear(inbox, QueriesOf(p))
    BY <1>1, <1>3, <1>4 DEF Waits
  <1>6. PICK y : y = Forward(t, q)
    OBVIOUS
  <1>7. y \in T /\ y.query = q
    BY <1>1, <1>4, <1>6 DEF Waits, Forward, ForwardsOf
  <1>8. f = y /\ Clear(u, T)
    <2>1. Sole(l, T, y)
      BY <1>5, <1>6
    <2>2. (Head(l) = y /\ Clear(u, T)) \/ Head(l) \notin T
      BY <1>1, <1>2, <1>7, <2>1, Taking
    <2>q. QED
      BY <1>2, <2>2
  <1>q. QED
    BY <1>1, <1>4, <1>5, <1>7, <1>8 DEF Waits

-----------------------------------------------------------------------------
(* Every step keeps AskInv. *)

AskAll == \A p \in Panes \ disturbed : AskAt(p)

LEMMA InboxGrows ==
  ASSUME TypeInv, NEW r \in Seq(Messages), \A i \in 1 .. Len(r) : r[i].what # "query",
         inbox' = inbox \o r, NEW t
  PROVE  InboxStays(t)
  <1>1. PICK rest \in Seq(Messages) : rest = inbox
    BY TrafficTypes
  <1>2. Clear(r, QueriesOf(t))
    BY QueryIs DEF Clear
  <1>3. PICK x : x = inbox'
    OBVIOUS
  <1>4. /\ Clear(inbox, QueriesOf(t)) => Clear(x, QueriesOf(t))
        /\ \A y \in QueriesOf(t) : Sole(inbox, QueriesOf(t), y) => Sole(x, QueriesOf(t), y)
    BY <1>1, <1>2, <1>3, InboxCarried
  <1>q. QED
    BY <1>3, <1>4 DEF InboxStays

LEMMA InboxTakes ==
  ASSUME TypeInv, inbox # <<>>, NEW t, Head(inbox) \notin QueriesOf(t), inbox' = Tail(inbox)
  PROVE  InboxStays(t)
  <1>1. PICK x, a : x = inbox' /\ a = <<>>
    OBVIOUS
  <1>2. x \in Seq(Messages) /\ a \in Seq(Messages) /\ Clear(a, QueriesOf(t)) /\ x = x \o a
    <2>1. inbox \in Seq(Messages)
      BY TrafficTypes
    <2>q. QED
      BY <1>1, <2>1 DEF Clear
  <1>3. /\ Clear(inbox, QueriesOf(t)) => Clear(x, QueriesOf(t))
        /\ \A y \in QueriesOf(t) : Sole(inbox, QueriesOf(t), y) => Sole(x, QueriesOf(t), y)
    BY <1>1, <1>2, InboxCarried
  <1>q. QED
    BY <1>1, <1>3 DEF InboxStays

\* A step that has nothing to do with the questions of t.
LEMMA AskAside ==
  ASSUME TypeInv, NEW t \in Panes, AskAt(t), UNCHANGED <<queueVars, writer, forward, waiting>>,
         shown'[t] = shown[t], t \in open' => t \in open,
         t \in open' /\ t \in paused => t \in paused', InboxStays(t)
  PROVE  AskAt(t)'
  <1>1. Stream(t)' = Stream(t)
    BY DEF Stream, Sent, queueVars
  <1>2. LineStays(t)
    BY LineSame
  <1>q. QED
    BY <1>1, <1>2, AskStays

LEMMA InboxSame ==
  ASSUME inbox' = inbox, NEW t
  PROVE  InboxStays(t)
  BY DEF InboxStays

\* At most messages that ask for nothing are added to the channel of Screen.
Mails == \E r \in Seq(Messages) : /\ inbox' = inbox \o r
                                  /\ \A i \in 1 .. Len(r) : r[i].what # "query"

LEMMA MailsIf ==
  ASSUME TypeInv
  PROVE  /\ inbox' = inbox => Mails
         /\ \A m \in Messages : m.what # "query" /\ inbox' = Append(inbox, m) => Mails
         /\ \A t \in Nat, a \in Seq(Units) : inbox' = Append(inbox, Reply(t, a)) => Mails
  <1>1. inbox \in Seq(Messages)
    BY TrafficTypes
  <1>2. inbox' = inbox => Mails
    <2>1. PICK e : e = <<>>
      OBVIOUS
    <2>2. inbox \o e = inbox /\ e \in Seq(Messages) /\ \A i \in 1 .. Len(e) : e[i].what # "query"
      BY <1>1, <2>1
    <2>q. QED
      BY <2>2 DEF Mails
  <1>3. ASSUME NEW m \in Messages, m.what # "query", inbox' = Append(inbox, m) PROVE Mails
    <2>1. PICK e : e = <<m>>
      OBVIOUS
    <2>2. inbox \o e = Append(inbox, m) /\ e \in Seq(Messages)
          /\ \A i \in 1 .. Len(e) : e[i].what # "query"
      BY <1>1, <1>3, <2>1
    <2>q. QED
      BY <1>3, <2>2 DEF Mails
  <1>4. ASSUME NEW t \in Nat, NEW a \in Seq(Units), inbox' = Append(inbox, Reply(t, a)) PROVE Mails
    <2>1. PICK m : m = Reply(t, a)
      OBVIOUS
    <2>2. m \in Messages /\ m.what # "query"
      BY <2>1, ReplyIs
    <2>q. QED
      BY <1>3, <1>4, <2>1, <2>2
  <1>q. QED
    BY <1>2, <1>3, <1>4

LEMMA AskMail ==
  ASSUME TypeInv, AskAll, Mails,
         UNCHANGED <<queueVars, writer, forward, waiting, shown, open, paused, disturbed>>
  PROVE  AskAll'
  <1>1. \A t : InboxStays(t)
    BY InboxGrows DEF Mails
  <1>2. ASSUME NEW t \in Panes \ disturbed PROVE AskAt(t)'
    BY <1>1, <1>2, AskAside DEF AskAll
  <1>q. QED
    BY <1>2 DEF AskAll

LEMMA AskMails ==
  ASSUME TypeInv, AskAll,
         \/ \E p \in Panes : Prints(p)
         \/ ServerStep \/ UNCHANGED vars
         \/ \E token \in timers : ServerTimer(token)
         \/ \E c \in Clients : \/ Route(c) \/ OpenForward(c) \/ HostTerminal(c)
                               \/ ClientTimer(c) \/ ClientLeaves(c)
  PROVE  AskAll'
  <1> DEFINE Quietly ==
        UNCHANGED <<queueVars, writer, forward, waiting, shown, open, paused, disturbed>>
  <1>1. CASE \E p \in Panes : Prints(p)
    <2>1. PICK p \in Panes : Prints(p)
      BY <1>1
    <2>2. PICK m : m = [what |-> "bytes", pane |-> p,
                        items |-> [i \in 1 .. Len(Head(script[p])) |-> Len(printed[p]) + i]]
      OBVIOUS
    <2>3. Quietly /\ inbox' = Append(inbox, m)
      BY <2>1, <2>2 DEF Prints, writerVars, forwardVars, history
    <2>4. m \in Messages /\ m.what # "query"
      <3>1. [i \in 1 .. Len(Head(script[p])) |-> Len(printed[p]) + i] \in Items
        <4>1. script[p] \in Seq(Seq(Kinds)) /\ script[p] # <<>> /\ printed[p] \in Seq(Kinds)
          BY <2>1 DEF Prints, TypeInv, PaneTypes
        <4>2. PICK S : S = Seq(Kinds)
          OBVIOUS
        <4>3. Head(script[p]) \in S
          BY <4>1, <4>2
        <4>4. PICK n \in Nat, k \in Nat : n = Len(Head(script[p])) /\ k = Len(printed[p])
          BY <4>1, <4>2, <4>3
        <4>5. [i \in 1 .. n |-> k + i] \in Seq(Nat)
          OBVIOUS
        <4>q. QED
          BY <4>4, <4>5 DEF Items
      <3>q. QED
        BY <2>2, <3>1 DEF Messages
    <2>q. QED
      BY <2>3, <2>4, MailsIf, AskMail
  <1>2. CASE ForwardQueryToHost
    <2>1. Quietly
      BY <1>2, ToHostIs DEF writerVars, paneVars, forwardVars, history
    <2>2. PICK f \in Forwards : Relays(f)
      BY <1>2, ToHostIs
    <2>3. inbox' = inbox \/ inbox' = Append(inbox, Reply(f.token, <<>>))
      BY <2>2 DEF Relays
    <2>4. f.token \in Nat /\ <<>> \in Seq(Units)
      BY OwnAnswers2
    <2>5. Mails
      BY <2>3, <2>4, MailsIf
    <2>q. QED
      BY <2>1, <2>5, AskMail
  <1>3. CASE RemoveClient
    <2>1. Quietly
      BY <1>3, RemoveIs DEF writerVars, paneVars, forwardVars, history
    <2>2. Mails
      BY <1>3, RemoveIs DEF Removes, Mails
    <2>q. QED
      BY <2>1, <2>2, AskMail
  <1>4. CASE \E token \in timers : ServerTimer(token)
    <2>1. Quietly
      BY <1>4 DEF ServerTimer, writerVars, paneVars
    <2>2. PICK t \in Nat, a \in Seq(Units) : inbox' = Append(inbox, Reply(t, a))
      <3>1. <<>> \in Seq(Units)
        OBVIOUS
      <3>q. QED
        BY <1>4, <3>1, TimerIs
    <2>q. QED
      BY <2>1, <2>2, MailsIf, AskMail
  <1>5. CASE \E c \in Clients : Route(c)
    <2>1. PICK c \in Clients : Route(c)
      BY <1>5
    <2>2. Quietly
      BY <2>1 DEF Route, writerVars, paneVars, forwardVars, history
    <2>3. PICK m \in Outbound : Routes(c, m)
      BY <2>1, RouteIs
    <2>4. \/ inbox' = inbox
          \/ inbox' = Append(inbox, Reply(m.token, m.answers))
      BY <2>3 DEF Routes
    <2>5. m.token \in Nat /\ m.answers \in Seq(Units)
      BY OutboundKinds
    <2>6. Mails
      BY <2>4, <2>5, MailsIf
    <2>q. QED
      BY <2>2, <2>6, AskMail
  <1>6. CASE \E c \in Clients : OpenForward(c) \/ HostTerminal(c) \/ ClientTimer(c) \/ ClientLeaves(c)
    <2>1. Quietly /\ inbox' = inbox
      BY <1>6 DEF OpenForward, HostTerminal, ClientTimer, ClientLeaves, writerVars, paneVars,
                  forwardVars, history
    <2>q. QED
      BY <2>1, MailsIf, AskMail
  <1>7. CASE UNCHANGED vars
    <2>1. Quietly /\ inbox' = inbox
      BY <1>7 DEF vars, writerVars, paneVars, forwardVars, history
    <2>q. QED
      BY <2>1, MailsIf, AskMail
  <1>q. QED
    BY <1>1, <1>2, <1>3, <1>4, <1>5, <1>6, <1>7 DEF ServerStep

LEMMA AskCommands ==
  ASSUME TypeInv, AskAll, NEW p \in Panes,
         ScrollUp(p) \/ ScrollTerminalDown(p) \/ MoveToTab(p) \/ ClosePane(p)
  PROVE  AskAll'
  <1>1. /\ inbox' = inbox /\ writer' = writer /\ shown' = shown
        /\ UNCHANGED <<queueVars, forward, waiting>>
        /\ disturbed \subseteq disturbed' /\ open' \subseteq open
        /\ \A t : t \in open' /\ t \in paused => t \in paused'
    BY DEF ScrollUp, ScrollTerminalDown, MoveToTab, ClosePane, Command, Disturb, forwardVars
  <1>2. ASSUME NEW t \in Panes \ disturbed' PROVE AskAt(t)'
    BY <1>1, <1>2, AskAside, InboxSame DEF AskAll
  <1>q. QED
    BY <1>2 DEF AskAll

LEMMA UnitsJoin ==
  ASSUME NEW a \in Seq(Units), NEW b \in Seq(Units)
  PROVE  /\ a \o b \in Seq(Units) /\ <<>> \in Seq(Units)
         /\ a \o <<>> = a /\ <<>> \o a = a
  OBVIOUS


\* Of what is queued for a terminal nothing is dropped, or everything.
LEMMA DrainStream ==
  ASSUME TypeInv, NEW queue \in [Panes -> Seq(Units)], Drain(queue), NEW t \in Panes
  PROVE  \E z \in {queue[t], <<>>} : received'[t] \o pending'[t] = received[t] \o z
  <1>1. PICK n \in [open -> 0 .. MaxPending] :
          /\ \A x \in open : n[x] <= Len(queue[x])
          /\ received' = [x \in Panes |->
               IF x \in open THEN received[x] \o SubSeq(queue[x], 1, n[x]) ELSE received[x]]
          /\ pending' = [x \in Panes |->
               IF x \in open THEN SubSeq(queue[x], n[x] + 1, Len(queue[x])) ELSE <<>>]
    BY DEF Drain
  <1>2. CASE t \in open
    <2>1. PICK q \in Seq(Units) : q = queue[t]
      OBVIOUS
    <2>2. PICK k \in 0 .. Len(q) : k = n[t]
      <3>1. n[t] \in 0 .. MaxPending /\ n[t] <= Len(q) /\ Len(q) \in Nat
        BY <1>1, <1>2, <2>1
      <3>q. QED
        BY <3>1, PendingAssumption
    <2>3. PICK a, b : a = SubSeq(q, 1, k) /\ b = SubSeq(q, k + 1, Len(q))
      OBVIOUS
    <2>4. a \in Seq(Units) /\ b \in Seq(Units) /\ a \o b = q
      BY <2>3, SplitAt
    <2>5. PICK r \in Seq(Units) : r = received[t]
      BY StreamIs
    <2>6. (r \o a) \o b = r \o (a \o b)
      <3>1. r \in Seq(Units) /\ a \in Seq(Units) /\ b \in Seq(Units)
        BY <2>4, <2>5
      <3>2. Regroups(r, a, b)
        BY ONLY <3>1, Grouped
      <3>q. QED
        BY <3>2, Zenon DEF Regroups
    <2>7. received'[t] = r \o a /\ pending'[t] = b
      BY <1>1, <1>2, <2>1, <2>2, <2>3, <2>5
    <2>8. received'[t] \o pending'[t] = received[t] \o queue[t]
      BY <2>1, <2>4, <2>5, <2>6, <2>7, Zenon
    <2>q. QED
      BY <2>8
  <1>3. CASE t \notin open
    <2>1. received'[t] = received[t] /\ pending'[t] = <<>>
      BY <1>1, <1>3
    <2>q. QED
      BY <2>1
  <1>q. QED
    BY <1>2, <1>3

LEMMA AskWriter ==
  ASSUME TypeInv, AskAll, WriterStep
  PROVE  AskAll'
  <1>1. UNCHANGED <<shown, paused, inbox, forward, waiting, disturbed, open>>
    BY DEF WriterStep, HandleWrite, Retry, forwardVars, history
  <1>2. SUFFICES ASSUME NEW t \in Panes \ disturbed PROVE AskAt(t)'
    BY <1>1 DEF AskAll
  <1>3. PICK r, d, w : r = received[t] /\ d = pending[t] /\ w = Sent(t, writer)
    OBVIOUS
  <1>4. /\ r \in Seq(Units) /\ d \in Seq(Units) /\ w \in Seq(Units)
        /\ writer \in Seq(Writes) /\ Stream(t) = (r \o d) \o w
    BY <1>3, StreamIs DEF Stream
  <1>5. PICK s : s = Stream(t)'
    OBVIOUS
  <1>6. \E x, v, z \in Seq(Units) : /\ w = x \o v /\ z \in {d \o x, <<>>} /\ s = (r \o z) \o v
    <2>1. PICK u : u = writer'
      OBVIOUS
    <2>2. s = (received'[t] \o pending'[t]) \o Sent(t, u)
      BY <1>5, <2>1 DEF Stream, Sent
    <2>3. CASE Retry
      <3>1. pending \in [Panes -> Seq(Units)] /\ Drain(pending) /\ u = writer
        BY <2>1, <2>3 DEF Retry, TypeInv, WriterTypes
      <3>2. PICK z \in {d, <<>>} : received'[t] \o pending'[t] = r \o z
        BY <1>3, <3>1, DrainStream
      <3>3. PICK x \in Seq(Units) : x = <<>>
        BY <1>4, UnitsJoin, Zenon
      <3>4. w = x \o w /\ d \o x = d /\ z \in Seq(Units)
        BY <1>4, <3>2, <3>3, UnitsJoin, Zenon
      <3>5. s = (r \o z) \o w
        BY <1>3, <2>2, <3>1, <3>2, Zenon
      <3>q. QED
        BY <1>4, <3>2, <3>3, <3>4, <3>5, Zenon
    <2>4. CASE HandleWrite
      <3>1. PICK m : m = Head(writer)
        OBVIOUS
      <3>2. PICK q : q = [pending EXCEPT ![m.to] = Enqueue(@, m.units)]
        OBVIOUS
      <3>3. Drain(q) /\ u = Tail(writer) /\ writer # <<>>
        BY <2>1, <2>4, <3>1, <3>2, Zenon DEF HandleWrite
      <3>4. m \in Writes /\ u \in Seq(Writes)
        BY <1>4, <3>1, <3>3
      <3>5. m.to \in Panes /\ m.units \in Seq(Units)
        BY <3>4 DEF Writes
      <3>6. PICK x \in Seq(Units) : x = IF m.to = t THEN m.units ELSE <<>>
        <4>1. PICK x : x = IF m.to = t THEN m.units ELSE <<>>
          OBVIOUS
        <4>2. x \in Seq(Units)
          <5>1. <<>> \in Seq(Units)
            BY <1>4, UnitsJoin, Zenon
          <5>q. QED
            BY <3>5, <4>1, <5>1, Zenon
        <4>q. QED
          BY <4>1, <4>2, Zenon
      <3>7. PICK v \in Seq(Units) : v = Sent(t, u)
        BY <3>4, SentType
      <3>8. w = x \o v
        BY <1>3, <1>4, <3>1, <3>3, <3>6, <3>7, SentHead
      <3>9. \A y \in Seq(Units) : Enqueue(y, m.units) \in {y \o m.units, <<>>}
                                  /\ Enqueue(y, m.units) \in Seq(Units)
        <4>1. ASSUME NEW y \in Seq(Units)
              PROVE  Enqueue(y, m.units) \in {y \o m.units, <<>>}
          BY Zenon DEF Enqueue
        <4>2. ASSUME NEW y \in Seq(Units) PROVE y \o m.units \in Seq(Units) /\ <<>> \in Seq(Units)
          BY <3>5, UnitsJoin, Zenon
        <4>q. QED
          BY <4>1, <4>2
      <3>10. pending \in [Panes -> Seq(Units)]
        BY DEF TypeInv, WriterTypes
      <3>11. q \in [Panes -> Seq(Units)]
        BY <3>2, <3>5, <3>9, <3>10
      <3>12. q[t] \in {d \o x, <<>>}
        <4>1. CASE m.to = t
          BY <1>3, <1>4, <3>2, <3>6, <3>9, <3>10, <4>1
        <4>2. CASE m.to # t
          <5>1. q[t] = d /\ x = <<>>
            BY <1>3, <3>2, <3>6, <3>10, <4>2
          <5>2. d \o <<>> = d
            BY <1>4
          <5>q. QED
            BY <5>1, <5>2
        <4>q. QED
          BY <4>1, <4>2
      <3>13. PICK z \in {q[t], <<>>} : received'[t] \o pending'[t] = r \o z
        BY <1>3, <3>3, <3>11, DrainStream
      <3>14. z \in {d \o x, <<>>}
        BY <3>12, <3>13
      <3>15. z \in Seq(Units)
        <4>1. d \o x \in Seq(Units)
          BY <1>4, UnitsJoin, Zenon
        <4>2. <<>> \in Seq(Units)
          BY <1>4, UnitsJoin, Zenon
        <4>q. QED
          BY <3>14, <4>1, <4>2
      <3>16. s = (r \o z) \o v
        BY <2>2, <3>7, <3>13, Zenon
      <3>q. QED
        BY <3>8, <3>14, <3>15, <3>16, Zenon
    <2>q. QED
      BY <2>3, <2>4 DEF WriterStep
  <1>7. PICK x, v, z \in Seq(Units) : /\ w = x \o v /\ z \in {d \o x, <<>>} /\ s = (r \o z) \o v
    BY <1>6
  <1>8. PICK y \in Seq(Units) : y = d \o x
    BY <1>4, <1>7, UnitsJoin, Zenon
  <1>9. Stream(t) = (r \o y) \o v
    <2>1. PICK a \in Seq(Units) : a = r \o d
      BY <1>4, UnitsJoin, Zenon
    <2>2. (a \o x) \o v = a \o (x \o v)
      <3>1. a \in Seq(Units) /\ x \in Seq(Units) /\ v \in Seq(Units)
        BY <1>7, <2>1
      <3>2. Regroups(a, x, v)
        BY ONLY <3>1, Grouped
      <3>q. QED
        BY <3>2, Zenon DEF Regroups
    <2>3. (r \o d) \o x = r \o (d \o x)
      <3>1. r \in Seq(Units) /\ d \in Seq(Units) /\ x \in Seq(Units)
        BY <1>4, <1>7
      <3>2. Regroups(r, d, x)
        BY ONLY <3>1, Grouped
      <3>q. QED
        BY <3>2, Zenon DEF Regroups
    <2>q. QED
      BY <1>4, <1>7, <1>8, <2>1, <2>2, <2>3, Zenon
  <1>10. ASSUME NEW n \in Nat, Within(t, Stream(t), n) PROVE Within(t, s, n)
    <2>1. CASE z = y
      BY <1>7, <1>9, <1>10, <2>1, Zenon
    <2>2. CASE z = <<>>
      <3>1. Within(t, r \o v, n)
        BY <1>4, <1>9, <1>10, WithinDrop
      <3>2. r \o <<>> = r
        BY <1>4
      <3>q. QED
        BY <1>7, <2>2, <3>1, <3>2, Zenon
    <2>q. QED
      BY <1>7, <1>8, <2>1, <2>2
  <1>11. InboxStays(t) /\ LineStays(t)
    BY <1>1, InboxSame, LineSame
  <1>12. AskAt(t)
    BY DEF AskAll
  <1>q. QED
    BY <1>1, <1>5, <1>10, <1>11, <1>12, AskKeeps

LEMMA AnswersTypes ==
  ASSUME NEW q \in Units
  PROVE  AnswersOf(q) \subseteq Seq(Units)
  <1>1. <<>> \in Seq(Units) /\ <<q>> \in Seq(Units)
    OBVIOUS
  <1>q. QED
    BY <1>1, Zenon DEF AnswersOf

LEMMA RestIs ==
  ASSUME TypeInv, NEW t
  PROVE  /\ Rest(t, inbox)
         /\ \A u : inbox # <<>> /\ u = Tail(inbox) /\ Head(inbox) \notin QueriesOf(t) => Rest(t, u)
  <1>1. inbox \in Seq(Messages)
    BY TrafficTypes
  <1>2. \A u : inbox # <<>> /\ u = Tail(inbox) => u \in Seq(Messages)
    BY <1>1
  <1>q. QED
    BY <1>1, <1>2, Zenon DEF Rest

\* Output arrives for a pane, or is no longer held back.
LEMMA AskGiven ==
  ASSUME TypeInv, TypeInv', KeptInv, KeptInv', Single, AskAll,
         HandlePtyBytes \/ \E p \in Panes : ScrollToBottom(p)
  PROVE  AskAll'
  <1>1. CASE HandlePtyBytes
    <2>1. PICK u, m : u = Tail(inbox) /\ m = Head(inbox)
      OBVIOUS
    <2>2. /\ inbox # <<>> /\ m.what = "bytes" /\ UNCHANGED <<queueVars, printed, open>>
          /\ UNCHANGED <<forward, waiting, disturbed>>
          /\ \/ inbox' = u /\ UNCHANGED <<shown, paused, writer>>
             \/ \E p \in Panes : Parses(p, u)
      BY <1>1, <2>1, PtyBytesIs, Zenon DEF forwardVars, history
    <2>3. m \in Messages
      BY <2>1, <2>2, InboxHead
    <2>4. \A t : m \notin QueriesOf(t)
      BY <2>2, <2>3, QueryIs
    <2>5. \A t : Rest(t, u)
      BY <2>1, <2>2, <2>4, RestIs
    <2>6. CASE inbox' = u /\ UNCHANGED <<shown, paused, writer>>
      <3>1. \A t : InboxStays(t)
        BY <2>1, <2>2, <2>4, <2>6, InboxTakes
      <3>2. ASSUME NEW t \in Panes \ disturbed PROVE AskAt(t)'
        BY <2>2, <2>6, <3>1, AskAside DEF AskAll
      <3>q. QED
        BY <2>2, <3>2 DEF AskAll
    <2>7. CASE \E p \in Panes : Parses(p, u)
      <3>1. PICK p \in Panes : Parses(p, u)
        BY <2>7
      <3>2. ASSUME NEW t \in Panes \ disturbed PROVE AskAt(t)'
        BY <2>2, <2>5, <3>1, ParsesAsk DEF AskAll
      <3>q. QED
        BY <2>2, <3>2 DEF AskAll
    <2>q. QED
      BY <2>2, <2>6, <2>7
  <1>2. CASE \E p \in Panes : ScrollToBottom(p)
    <2>1. PICK p \in Panes : ScrollToBottom(p)
      BY <1>2
    <2>2. PICK u : u = inbox
      OBVIOUS
    <2>3. /\ Parses(p, u) /\ UNCHANGED <<queueVars, printed, open, forward, waiting, disturbed>>
      BY <2>1, <2>2, ScrollToBottomIs, Zenon DEF forwardVars
    <2>4. \A t : Rest(t, u)
      BY <2>2, RestIs
    <2>5. ASSUME NEW t \in Panes \ disturbed PROVE AskAt(t)'
      BY <2>3, <2>4, ParsesAsk DEF AskAll
    <2>q. QED
      BY <2>3, <2>5 DEF AskAll
  <1>q. QED
    BY <1>1, <1>2

\* The color mode is known, and a pane goes on or has nothing to go on with.
LEMMA AskColor ==
  ASSUME TypeInv, TypeInv', KeptInv', Single, AskAll, AnswerColorMode
  PROVE  AskAll'
  <1>1. PICK u, m : u = Tail(inbox) /\ m = Head(inbox)
    OBVIOUS
  <1>2. /\ inbox # <<>> /\ m.what = "query" /\ UNCHANGED <<queueVars, printed, open>>
        /\ UNCHANGED <<forward, waiting, disturbed>>
    BY <1>1, ColorModeIs, Zenon DEF forwardVars, history
  <1>3. PICK q \in Units : /\ q = m.query
                           /\ \/ Resumes(q.pane, <<q>>, u) \/ Resumes(q.pane, <<>>, u)
                              \/ /\ q.pane \notin open \cap paused
                                 /\ inbox' = u /\ UNCHANGED <<shown, paused, writer>>
    BY <1>1, ColorModeIs, Zenon
  <1>4. m \in Messages /\ u \in Seq(Messages)
    BY <1>1, <1>2, InboxHead
  <1>5. PICK p \in Panes : p = q.pane
    BY UnitsHave
  <1>6. m \in QueriesOf(p) /\ \A t : t # p => m \notin QueriesOf(t)
    BY <1>2, <1>3, <1>4, <1>5, QueryIs
  <1>7. \A t : LineStays(t)
    BY <1>2, LineSame
  <1>8. \A t : t # p => Rest(t, u)
    BY <1>1, <1>2, <1>6, RestIs
  <1>9. p \notin disturbed =>
          /\ 0 < q.at /\ q.at <= Len(shown[p]) /\ (p \in open => p \in paused)
          /\ Within(p, Stream(p), q.at - 1)
          /\ Clear(u, QueriesOf(p)) /\ Clear(Line, ForwardsOf(p))
    BY <1>1, <1>2, <1>3, <1>6, FirstInbox DEF AskAll
  <1>10. PICK l : l = Line'
    OBVIOUS
  <1>11. Clear(Line, ForwardsOf(p)) => Clear(l, ForwardsOf(p))
    BY <1>7, <1>10 DEF LineStays
  <1>12. CASE \E answers \in AnswersOf(q) : Resumes(p, answers, u)
    <2>1. PICK answers \in AnswersOf(q) : Resumes(p, answers, u)
      BY <1>12
    <2>2. answers \in Seq(Units)
      BY <2>1, AnswersTypes
    <2>3. p \notin disturbed => AskAt(p)'
      BY <1>2, <1>4, <1>5, <1>9, <1>10, <1>11, <2>1, ResumesAsk
    <2>4. ASSUME NEW t \in Panes \ disturbed, t # p PROVE AskAt(t)'
      BY <1>2, <1>7, <1>8, <2>1, <2>2, <2>4, ResumesElsewhere DEF AskAll
    <2>q. QED
      BY <1>2, <2>3, <2>4 DEF AskAll
  <1>13. CASE /\ p \notin open \cap paused
              /\ inbox' = u /\ UNCHANGED <<shown, paused, writer>>
    <2>1. p \notin disturbed => AskAt(p)'
      <3>1. SUFFICES ASSUME p \notin disturbed PROVE AskAt(p)'
        OBVIOUS
      <3>2. PICK x, s, n : x = inbox' /\ s = Stream(p)' /\ n = Len(shown'[p])
        OBVIOUS
      <3>3. s = Stream(p)
        BY <1>2, <1>13, <3>2 DEF Stream, Sent, queueVars
      <3>4. n \in Nat /\ n = Len(shown[p])
        <4>1. shown[p] \in Items
          BY WholeTypes
        <4>q. QED
          BY <1>13, <3>2, <4>1 DEF Items
      <3>5. PICK k \in Nat : k = q.at - 1 /\ k <= n
        <4>1. q.at \in Nat
          BY UnitsHave
        <4>q. QED
          BY <1>9, <3>1, <3>4, <4>1
      <3>6. Within(p, s, k)
        BY <1>9, <3>1, <3>3, <3>5
      <3>7. Within(p, s, n)
        <4>1. s \in Seq(Units)
          BY <3>3, StreamIs
        <4>q. QED
          BY <3>4, <3>5, <3>6, <4>1, WithinFacts
      <3>8. Free(p, x, l, s, n)
        BY <1>9, <1>11, <1>13, <3>1, <3>2, <3>7 DEF Free
      <3>q. QED
        BY <1>10, <3>2, <3>8, FreeThen
    <2>2. ASSUME NEW t \in Panes \ disturbed, t # p PROVE AskAt(t)'
      <3>1. InboxStays(t)
        BY <1>1, <1>2, <1>6, <1>13, <2>2, InboxTakes
      <3>q. QED
        BY <1>2, <1>13, <2>2, <3>1, AskAside DEF AskAll
    <2>q. QED
      BY <1>2, <2>1, <2>2 DEF AskAll
  <1>q. QED
    <2>1. <<>> \in AnswersOf(q) /\ <<q>> \in AnswersOf(q)
      BY DEF AnswersOf
    <2>q. QED
      BY <1>3, <1>5, <1>12, <1>13, <2>1

\* The line of the queries that are forwarded is served from its front.
LEMMA LineTaken ==
  ASSUME TypeInv, NEW f \in Forwards, forward = <<f>>,
         \/ forward' = <<>> /\ waiting = <<>> /\ UNCHANGED <<waiting, server, timers>>
         \/ \E g \in Forwards : /\ waiting # <<>> /\ g = Head(waiting) /\ Dispatch(g)
                                /\ waiting' = Tail(waiting)
  PROVE  Line' = waiting /\ Line' = Tail(Line)
  <1>1. waiting \in Seq(Forwards)
    BY TrafficTypes
  <1>2. Line' = waiting
    <2>1. CASE forward' = <<>> /\ waiting = <<>> /\ waiting' = waiting
      BY <2>1 DEF Line
    <2>2. CASE \E g \in Forwards : /\ waiting # <<>> /\ g = Head(waiting) /\ Dispatch(g)
                                   /\ waiting' = Tail(waiting)
      <3>1. PICK w \in Seq(Forwards) : w = waiting
        BY <1>1
      <3>2. w # <<>> /\ forward' = <<Head(w)>> /\ waiting' = Tail(w)
        BY <2>2, <3>1 DEF Dispatch
      <3>3. <<Head(w)>> \o Tail(w) = w
        BY <3>1, <3>2
      <3>q. QED
        BY <3>1, <3>2, <3>3, Zenon DEF Line
    <2>q. QED
      BY <2>1, <2>2
  <1>q. QED
    BY <1>2, LineIs

LEMMA LineJoined ==
  ASSUME TypeInv, NEW f \in Forwards,
         \/ /\ forward # <<>> /\ waiting' = Append(waiting, f)
            /\ UNCHANGED <<forward, server, timers>>
         \/ forward = <<>> /\ Dispatch(f) /\ waiting' = waiting
  PROVE  Line' = Append(Line, f)
  <1>1. PICK v \in Seq(Forwards), w \in Seq(Forwards) :
          v = forward /\ w = waiting /\ (v = <<>> => w = <<>>)
    BY TrafficTypes
  <1>2. CASE forward # <<>> /\ waiting' = Append(waiting, f) /\ forward' = forward
    <2>1. v \o Append(w, f) = Append(v \o w, f)
      BY <1>1
    <2>q. QED
      BY <1>1, <1>2, <2>1, Zenon DEF Line
  <1>3. CASE forward = <<>> /\ Dispatch(f) /\ waiting' = waiting
    <2>1. forward' = <<f>> /\ waiting' = <<>> /\ waiting = <<>>
      BY <1>1, <1>3 DEF Dispatch
    <2>q. QED
      BY <1>3, <2>1 DEF Line
  <1>q. QED
    BY <1>2, <1>3

\* The first of the line is answered, and by nothing but its own answer.
LEMMA AskReply ==
  ASSUME TypeInv, TypeInv', KeptInv', Single, OneAtATime, AskAll, HandleForwardedReply
  PROVE  AskAll'
  <1>1. PICK u, m : u = Tail(inbox) /\ m = Head(inbox)
    OBVIOUS
  <1>2. /\ inbox # <<>> /\ m.what = "reply" /\ UNCHANGED <<queueVars, printed, open>>
        /\ disturbed' = disturbed
    BY <1>1, ForwardedReplyIs, Zenon DEF history
  <1>3. m \in Messages /\ u \in Seq(Messages)
    BY <1>1, <1>2, InboxHead
  <1>4. \A t : m \notin QueriesOf(t)
    BY <1>2, <1>3, QueryIs
  <1>5. \A t : Rest(t, u)
    BY <1>1, <1>2, <1>4, RestIs
  <1>6. CASE inbox' = u /\ UNCHANGED <<shown, paused, writer, forward, waiting>>
    <2>1. \A t : InboxStays(t)
      BY <1>1, <1>2, <1>4, <1>6, InboxTakes
    <2>2. ASSUME NEW t \in Panes \ disturbed PROVE AskAt(t)'
      BY <1>2, <1>6, <2>1, AskAside DEF AskAll
    <2>q. QED
      BY <1>2, <2>2 DEF AskAll
  <1>7. CASE \E f \in Forwards, answers \in Seq(Units) :
               /\ f.token = m.token
               /\ answers = m.answers \/ answers = <<>> \/ answers = <<f.query>>
               /\ Replied(f, answers)
    <2>1. PICK f \in Forwards, answers \in Seq(Units) :
            /\ f.token = m.token
            /\ answers = m.answers \/ answers = <<>> \/ answers = <<f.query>>
            /\ Replied(f, answers)
      BY <1>7
    <2>2. PICK q \in Units, p \in Panes : q = f.query /\ p = f.query.pane
      BY ForwardOf, UnitsHave
    <2>3. /\ forward = <<f>> /\ Resumes(p, answers, u)
          /\ \/ forward' = <<>> /\ waiting = <<>> /\ UNCHANGED <<waiting, server, timers>>
             \/ \E g \in Forwards : /\ waiting # <<>> /\ g = Head(waiting) /\ Dispatch(g)
                                    /\ waiting' = Tail(waiting)
      BY <1>1, <2>1, <2>2, Zenon DEF Replied
    <2>4. answers \in AnswersOf(q)
      <3>1. m \in Replies(inbox)
        BY <1>1, <1>2, TrafficTypes, RepliesTaken
      <3>2. AtOnePlace(f)
        BY <2>3 DEF OneAtATime
      <3>3. OnlyOwn(f)
        BY <2>1, <3>1, <3>2 DEF AtOnePlace, Unanswered
      <3>4. m.answers \in OwnAnswer(f)
        BY <2>1, <3>1, <3>3 DEF OnlyOwn
      <3>q. QED
        BY <2>1, <2>2, <3>4 DEF OwnAnswer, AnswersOf
    <2>5. PICK l, k : l = Line' /\ k = Line
      OBVIOUS
    <2>6. l = Tail(k) /\ k \in Seq(Forwards) /\ k # <<>> /\ Head(k) = f
      BY <2>3, <2>5, LineTaken, LineIs
    <2>7. ASSUME NEW t, t # p PROVE LineStays(t)
      <3>1. PICK T : T = ForwardsOf(t)
        OBVIOUS
      <3>2. f \notin T
        BY <2>2, <2>7, <3>1, ForwardOf
      <3>3. Clear(k, T) => Clear(l, T)
        BY <2>6, Taking
      <3>4. \A y \in T : Sole(k, T, y) => Sole(l, T, y)
        <4>1. \A y : Sole(k, T, y) /\ y \in T =>
                       \/ Head(k) = y /\ Clear(l, T)
                       \/ Head(k) \notin T /\ Sole(l, T, y)
          BY <2>6, Taking
        <4>q. QED
          BY <2>6, <3>2, <4>1
      <3>q. QED
        BY <2>5, <3>1, <3>3, <3>4 DEF LineStays
    <2>8. p \notin disturbed => AskAt(p)'
      <3>1. SUFFICES ASSUME p \notin disturbed PROVE AskAt(p)'
        OBVIOUS
      <3>2. /\ 0 < q.at /\ q.at <= Len(shown[p]) /\ Within(p, Stream(p), q.at - 1)
            /\ Clear(inbox, QueriesOf(p)) /\ Clear(Tail(Line), ForwardsOf(p))
        BY <2>2, <2>3, <3>1, FirstLine DEF AskAll
      <3>3. Clear(u, QueriesOf(p))
        <4>1. PICK T, x : T = QueriesOf(p) /\ x = inbox
          OBVIOUS
        <4>2. x \in Seq(Messages) /\ x # <<>> /\ u = Tail(x) /\ Clear(x, T)
          BY <1>1, <1>2, <3>2, <4>1, TrafficTypes
        <4>3. Clear(u, T)
          BY <4>2, Taking
        <4>q. QED
          BY <4>1, <4>3
      <3>4. Clear(Line', ForwardsOf(p))
        BY <2>5, <2>6, <3>2
      <3>q. QED
        BY <1>2, <1>3, <2>2, <2>3, <2>4, <3>1, <3>2, <3>3, <3>4, ResumesAsk
    <2>9. ASSUME NEW t \in Panes \ disturbed, t # p PROVE AskAt(t)'
      BY <1>2, <1>5, <2>1, <2>3, <2>7, <2>9, ResumesElsewhere DEF AskAll
    <2>q. QED
      BY <1>2, <2>8, <2>9 DEF AskAll
  <1>q. QED
    BY <1>1, <1>6, <1>7, ForwardedReplyIs, Zenon

\* A question that is forwarded takes its place in the line.
LEMMA AskHost ==
  ASSUME TypeInv, AskAll, ForwardHostQuery
  PROVE  AskAll'
  <1>1. PICK u, m : u = Tail(inbox) /\ m = Head(inbox)
    OBVIOUS
  <1>2. /\ inbox # <<>> /\ m.what = "query" /\ inbox' = u
        /\ UNCHANGED <<queueVars, writer, shown, open, paused, disturbed>>
    BY <1>1, HostQueryIs, Zenon DEF history, writerVars, paneVars
  <1>3. PICK f \in Forwards :
          /\ f.token = nextToken /\ f.query = m.query
          /\ \/ /\ forward # <<>> /\ waiting' = Append(waiting, f)
                /\ UNCHANGED <<forward, server, timers>>
             \/ forward = <<>> /\ Dispatch(f) /\ waiting' = waiting
    BY <1>1, HostQueryIs, Zenon
  <1>4. m \in Messages /\ u \in Seq(Messages)
    BY <1>1, <1>2, InboxHead
  <1>5. PICK q \in Units, p \in Panes : q = m.query /\ p = q.pane
    BY <1>3, ForwardOf, UnitsHave
  <1>6. m \in QueriesOf(p) /\ \A t : t # p => m \notin QueriesOf(t)
    BY <1>2, <1>4, <1>5, QueryIs
  <1>7. PICK l, k : l = Line' /\ k = Line
    OBVIOUS
  <1>8. l = Append(k, f) /\ k \in Seq(Forwards)
    BY <1>3, <1>7, LineJoined, LineIs
  <1>9. f \in ForwardsOf(p) /\ \A t : t # p => f \notin ForwardsOf(t)
    BY <1>3, <1>5, ForwardOf
  <1>10. p \notin disturbed => AskAt(p)'
    <2>1. SUFFICES ASSUME p \notin disturbed PROVE AskAt(p)'
      OBVIOUS
    <2>2. /\ 0 < q.at /\ q.at <= Len(shown[p]) /\ (p \in open => p \in paused)
          /\ Within(p, Stream(p), q.at - 1)
          /\ Clear(u, QueriesOf(p)) /\ Clear(k, ForwardsOf(p))
      BY <1>1, <1>2, <1>5, <1>6, <1>7, <2>1, FirstInbox DEF AskAll
    <2>3. PICK T : T = ForwardsOf(p)
      OBVIOUS
    <2>4. Sole(l, T, f)
      BY <1>8, <2>2, <2>3, Appending
    <2>5. \E t \in Nat : Sole(l, ForwardsOf(p), Forward(t, q))
      <3>1. f = Forward(f.token, q) /\ f.token \in Nat
        BY <1>3, <1>5, ForwardOf
      <3>q. QED
        BY <2>3, <2>4, <3>1, Zenon
    <2>6. PICK x, s, n : x = inbox' /\ s = Stream(p)' /\ n = Len(shown'[p])
      OBVIOUS
    <2>7. s = Stream(p)
      BY <1>2, <2>6 DEF Stream, Sent, queueVars
    <2>8. Waits(p, q, x, l, s, n)
      BY <1>2, <1>5, <2>2, <2>5, <2>6, <2>7, Zenon DEF Waits
    <2>q. QED
      BY <1>2, <1>7, <2>2, <2>6, <2>8, WaitsThen
  <1>11. ASSUME NEW t \in Panes \ disturbed, t # p PROVE AskAt(t)'
    <2>1. InboxStays(t)
      BY <1>1, <1>2, <1>6, <1>11, InboxTakes
    <2>2. LineStays(t)
      <3>1. PICK T : T = ForwardsOf(t)
        OBVIOUS
      <3>2. /\ Clear(k, T) => Clear(l, T)
            /\ \A y : Sole(k, T, y) => Sole(l, T, y)
        BY <1>8, <1>9, <1>11, <3>1, Appending
      <3>q. QED
        BY <1>7, <3>1, <3>2 DEF LineStays
    <2>3. Stream(t)' = Stream(t)
      BY <1>2 DEF Stream, Sent, queueVars
    <2>q. QED
      BY <1>2, <1>11, <2>1, <2>2, <2>3, AskStays DEF AskAll
  <1>q. QED
    BY <1>2, <1>10, <1>11 DEF AskAll

LEMMA InitAsk == Init => AskInv
  <1> SUFFICES ASSUME Init, NEW p \in Panes PROVE AskAt(p)
    BY DEF AskInv
  <1>1. /\ inbox = <<>> /\ forward = <<>> /\ waiting = <<>> /\ writer = <<>> /\ shown[p] = <<>>
        /\ received[p] = <<>> /\ pending[p] = <<>>
    BY DEF Init, WriterInit
  <1>2. Line = <<>>
    BY <1>1 DEF Line
  <1>3. PICK w \in Seq(Writes) : w = <<>>
    <2>1. <<>> \in Seq(Writes)
      OBVIOUS
    <2>q. QED
      BY <2>1
  <1>4. Stream(p) = <<>>
    <2>1. Sent(p, w) = <<>>
      BY <1>3, SentEmpty
    <2>2. Stream(p) = (<<>> \o <<>>) \o Sent(p, w)
      BY <1>1, <1>3 DEF Stream
    <2>q. QED
      BY <2>1, <2>2
  <1>5. Within(p, <<>>, Len(shown[p]))
    BY WithinFacts
  <1>6. Free(p, inbox, Line, Stream(p), Len(shown[p]))
    BY <1>1, <1>2, <1>4, <1>5 DEF Free, Clear
  <1>q. QED
    BY <1>6 DEF AskAt

LEMMA SurprisedStays == TypeInv /\ [Next]_vars /\ ~surprised' => ~surprised
  <1> SUFFICES ASSUME TypeInv, [Next]_vars PROVE surprised' = surprised \/ surprised' = TRUE
    OBVIOUS
  <1>1. CASE UNCHANGED history
    BY <1>1 DEF history
  <1>2. CASE \E p \in Panes : Prints(p) \/ ScrollUp(p) \/ ScrollToBottom(p)
                              \/ ScrollTerminalDown(p) \/ MoveToTab(p) \/ ClosePane(p)
    BY <1>2 DEF Prints, ScrollUp, ScrollToBottom, ScrollTerminalDown, MoveToTab, ClosePane,
                Command, history
  <1>3. CASE ScreenStep
    BY <1>3 DEF ScreenStep, HandlePtyBytes, ForwardHostQuery, AnswerColorMode,
                HandleForwardedReply, history
  <1>4. CASE ServerStep
    BY <1>4 DEF ServerStep, ForwardQueryToHost, RemoveClient, history
  <1>5. CASE WriterStep
    BY <1>5 DEF WriterStep, history
  <1>6. CASE \E token \in timers : ServerTimer(token)
    BY <1>6, TimerIs
  <1>7. CASE \E c \in Clients : Route(c) \/ OpenForward(c) \/ HostTerminal(c) \/ ClientTimer(c)
                                \/ ClientLeaves(c)
    BY <1>7, ClientTimerIs DEF Route, OpenForward, HostTerminal, ClientLeaves, history
  <1>8. UNCHANGED vars => UNCHANGED history
    BY DEF vars
  <1>q. QED
    BY <1>1, <1>2, <1>3, <1>4, <1>5, <1>6, <1>7, <1>8, Zenon DEF Next, User

LEMMA AskKept ==
  /\ TypeInv /\ KeptInv /\ TrafficInv /\ Single /\ AskInv /\ [Next]_vars
  /\ TypeInv' /\ KeptInv'
  => AskInv'
  <1> SUFFICES ASSUME TypeInv, KeptInv, TrafficInv, Single, AskInv, [Next]_vars,
                      TypeInv', KeptInv', ~surprised'
               PROVE  AskAll'
    BY DEF AskInv, AskAll
  <1>1. ~surprised
    BY SurprisedStays
  <1>2. AskAll /\ OneAtATime
    BY <1>1 DEF AskInv, AskAll, TrafficInv
  <1>3. CASE User
    <2>1. (\E p \in Panes : ScrollUp(p) \/ ScrollTerminalDown(p) \/ MoveToTab(p) \/ ClosePane(p))
          => AskAll'
      BY <1>2, AskCommands
    <2>2. (\E p \in Panes : ScrollToBottom(p)) => AskAll'
      BY <1>2, AskGiven
    <2>3. (\E p \in Panes : Prints(p)) \/ (\E c \in Clients : ClientLeaves(c)) => AskAll'
      BY <1>2, AskMails
    <2>q. QED
      BY <1>3, <2>1, <2>2, <2>3, Zenon DEF User
  <1>4. CASE ScreenStep
    BY <1>2, <1>4, AskGiven, AskHost, AskColor, AskReply DEF ScreenStep
  <1>5. CASE WriterStep
    BY <1>2, <1>5, AskWriter
  <1>6. CASE ServerStep \/ UNCHANGED vars \/ \E token \in timers : ServerTimer(token)
    BY <1>2, <1>6, AskMails
  <1>7. CASE \E c \in Clients : Route(c) \/ OpenForward(c) \/ HostTerminal(c) \/ ClientTimer(c)
    BY <1>2, <1>7, AskMails
  <1>q. QED
    BY <1>3, <1>4, <1>5, <1>6, <1>7, Zenon DEF Next

LEMMA AskSuffices == TypeInv /\ AskInv => AnswersInOrder
  <1> SUFFICES ASSUME TypeInv, AskInv, ~surprised, NEW p \in Panes \ disturbed, NEW s, s = Stream(p)
               PROVE  /\ \A i \in 1 .. Len(s) : s[i].pane = p
                      /\ \A i, j \in 1 .. Len(s) : i < j => s[i].at < s[j].at
    BY DEF AnswersInOrder
  <1>1. AskAt(p)
    BY DEF AskInv
  <1>2. \E n : Within(p, s, n)
    BY <1>1 DEF AskAt, Free, Waits
  <1>q. QED
    BY <1>2 DEF Within

\* As long as no answer and no timer comes at another time than it should, and
\* every escape sequence asks for one thing at most, each program gets the
\* answers to its own queries, each once, in the order in which it asked.
THEOREM AnswersRightly ==
  ASSUME NoPairs
  PROVE  Spec => []AnswersInOrder
  <1> DEFINE IInv == TypeInv /\ KeptInv /\ Farewell /\ TrafficInv /\ Single /\ AskInv
  <1>1. Init => IInv
    BY InitTypes, InitKept, InitTraffic, InitSingle, InitAsk
  <1>2. IInv /\ [Next]_vars => IInv'
    <2> SUFFICES ASSUME IInv, [Next]_vars PROVE IInv'
      OBVIOUS
    <2>1. TypeInv' /\ KeptInv'
      BY TypesKept, OutputStep
    <2>2. Farewell' /\ TrafficInv' /\ Single'
      BY FarewellKept, TrafficKept, SingleKept
    <2>3. AskInv'
      BY <2>1, AskKept
    <2>q. QED
      BY <2>1, <2>2, <2>3
  <1>3. IInv => AnswersInOrder
    BY AskSuffices
  <1> HIDE DEF IInv
  <1>q. QED
    BY <1>1, <1>2, <1>3, PTL DEF Spec
=============================================================================
