--------------------------- MODULE ActorCacheProofs ---------------------------
(***************************************************************************)
(* The write-back cache of the DB server cannot be told from a store, a    *)
(* character comes back as it left, and the iterator never stands on a     *)
(* node that is gone: proofs for any number of characters, parts, saves    *)
(* and messages.                                                           *)
(***************************************************************************)
EXTENDS ActorCache, FiniteSetTheorems, SequenceTheorems, TLAPS

\* The messages that were received and are not handled yet, in their order.
Unhandled == msgs \o appended

IsSave(m, a, t) == m.cmd = "save" /\ m.actor = a /\ m.type = t
IsQuery(m, a) == m.cmd = "query" /\ m.actor = a
IsLogout(m, a) == m.cmd = "logout" /\ m.actor = a

\* The newest version of a part that was handled.
Newest(a, t) == IF t \in cache[a].dirty THEN cache[a].version[t] ELSE db[a][t]

\* The types of what the messages and the tables hold.  An entry only expires clean,
\* and is removed before the next message is handled.
Basics ==
  /\ game \in [Actor -> {"out", "asking", "in"}]
  /\ sent \in [Actor -> [Type -> Version]]
  /\ msgs \in Seq(Message) /\ appended \in Seq(Message) /\ answers \in Seq(Answer)
  /\ pc # "handle" => msgs = << >>
  /\ cache \in [Actor -> Entry]
  /\ db \in [Actor -> [Type -> Version]]
  /\ \A a \in Actor : cache[a].expired => cache[a].dirty = {} /\ pc \in {"save", "expire"}

\* The saves of a part are handled in the order of its versions.
Ascending ==
  /\ \A a \in Actor, t \in Type : Newest(a, t) <= sent[a][t]
  /\ \A i \in 1 .. Len(Unhandled) : \A a \in Actor, t \in Type :
       IsSave(Unhandled[i], a, t) =>
         Newest(a, t) < Unhandled[i].version /\ Unhandled[i].version <= sent[a][t]
  /\ \A i, j \in 1 .. Len(Unhandled) : \A a \in Actor, t \in Type :
       i < j /\ IsSave(Unhandled[i], a, t) /\ IsSave(Unhandled[j], a, t) =>
         Unhandled[i].version < Unhandled[j].version

\* Once the first n messages of q are handled, all of a is in the tables that was
\* saved in the game: its logout comes after its saves.
WrittenAfter(q, dirty, a, n) ==
  \A t \in Kept :
    /\ t \in dirty => \E k \in 1 .. n : IsLogout(q[k], a)
    /\ \A j \in 1 .. n : IsSave(q[j], a, t) => \E k \in j + 1 .. n : IsLogout(q[k], a)

\* A load finds the tables complete, and one that is asked for now would.
LoadsComplete ==
  \A a \in Actor :
    /\ \A i \in 1 .. Len(Unhandled) :
         IsQuery(Unhandled[i], a) => WrittenAfter(Unhandled, cache[a].dirty, a, i - 1)
    /\ game[a] # "in" => WrittenAfter(Unhandled, cache[a].dirty, a, Len(Unhandled))

CacheInv == Basics /\ Ascending /\ LoadsComplete

-----------------------------------------------------------------------------
(* Messages and sequences of them *)

LEMMA VersionType ==
  ASSUME CacheAssumption
  PROVE  /\ \A v \in Version : v \in Nat
         /\ NoData \in [Type -> Version]
  BY DEF CacheAssumption, Version, NoData

LEMMA AppendAt ==
  ASSUME NEW S, NEW q \in Seq(S), NEW m \in S
  PROVE  /\ Append(q, m) \in Seq(S) /\ Len(Append(q, m)) = Len(q) + 1 /\ Len(q) \in Nat
         /\ Append(q, m)[Len(q) + 1] = m
         /\ \A i \in 1 .. Len(q) : Append(q, m)[i] = q[i]
  OBVIOUS

LEMMA TailAt ==
  ASSUME NEW S, NEW q \in Seq(S), q # << >>
  PROVE  /\ Tail(q) \in Seq(S) /\ Len(Tail(q)) = Len(q) - 1 /\ Len(q) \in Nat /\ Len(q) > 0
         /\ Head(q) = q[1] /\ q[1] \in S
         /\ \A i \in 1 .. Len(q) - 1 : Tail(q)[i] = q[i + 1]
  OBVIOUS

LEMMA UnhandledType ==
  ASSUME Basics
  PROVE  /\ Unhandled \in Seq(Message) /\ Len(Unhandled) \in Nat
         /\ \A i \in 1 .. Len(Unhandled) : Unhandled[i] \in Message
  BY DEF Basics, Unhandled

LEMMA MessageType ==
  ASSUME NEW m \in Message
  PROVE  /\ m.cmd \in {"save", "query", "logout", "rank"}
         /\ m.cmd = "save" => m.actor \in Actor /\ m.type \in Type /\ m.version \in Version
         /\ m.cmd \in {"query", "logout"} => m.actor \in Actor
  BY DEF Message, SaveMsg, Query, Logout, SaveRank

LEMMA SaveMsgMade ==
  ASSUME NEW a \in Actor, NEW t \in Type, NEW v \in Version
  PROVE  /\ SaveMsg(a, t, v) \in Message /\ SaveMsg(a, t, v).cmd = "save"
         /\ SaveMsg(a, t, v).actor = a /\ SaveMsg(a, t, v).type = t /\ SaveMsg(a, t, v).version = v
<1>1. SaveMsg(a, t, v) \in Message
  BY DEF Message
<1> QED  BY <1>1 DEF SaveMsg

LEMMA ReadMsgMade ==
  ASSUME NEW a \in Actor
  PROVE  /\ Query(a) \in Message /\ Query(a).cmd = "query" /\ Query(a).actor = a
         /\ Logout(a) \in Message /\ Logout(a).cmd = "logout" /\ Logout(a).actor = a
<1>1. Query(a) \in Message /\ Logout(a) \in Message
  BY DEF Message
<1> QED  BY <1>1 DEF Query, Logout

LEMMA RankMsgMade == SaveRank \in Message /\ SaveRank.cmd = "rank"
<1>1. SaveRank \in Message
  BY DEF Message
<1> QED  BY <1>1 DEF SaveRank

\* A message that is appended comes last.
LEMMA AppendLast ==
  ASSUME Basics, NEW m \in Message, AddMessage(m)
  PROVE  /\ Unhandled' = Append(Unhandled, m)
         /\ appended' \in Seq(Message) /\ msgs' = msgs
<1>1. msgs \in Seq(Message) /\ appended \in Seq(Message) /\ appended' = Append(appended, m) /\ msgs' = msgs
  BY DEF Basics, AddMessage
<1>2. msgs \o Append(appended, m) = Append(msgs \o appended, m)
  BY <1>1
<1> QED  BY <1>1, <1>2 DEF Unhandled

\* The message that is handled is the first of all.
LEMMA HandleFirst ==
  ASSUME Basics, msgs # << >>, msgs' = Tail(msgs), appended' = appended
  PROVE  /\ Unhandled # << >> /\ Head(msgs) = Unhandled[1]
         /\ Unhandled' = Tail(Unhandled) /\ msgs' \in Seq(Message)
<1>1. msgs \in Seq(Message) /\ appended \in Seq(Message)
  BY DEF Basics
<1>2. Tail(msgs) \o appended = Tail(msgs \o appended)
  BY <1>1
<1>3. msgs \o appended # << >> /\ Head(msgs) = (msgs \o appended)[1]
  BY <1>1
<1> QED  BY <1>1, <1>2, <1>3 DEF Unhandled

-----------------------------------------------------------------------------
(* What the handler does to the tables *)

\* Nothing gets older, newer or dirty.
Cleans ==
  \A a \in Actor : /\ cache'[a].dirty \subseteq cache[a].dirty
                   /\ \A t \in Type : Newest(a, t)' = Newest(a, t)

LEMMA CleansKeepsStore ==
  ASSUME Cleans
  PROVE  UNCHANGED newest
<1>1. \A a \in Actor : KeptOf(Written(a)) = [t \in Kept |-> Newest(a, t)]
  BY DEF KeptOf, Written, Newest, Kept
<1>2. \A a \in Actor : KeptOf(Written(a))' = [t \in Kept |-> Newest(a, t)']
  BY DEF KeptOf, Written, Newest, Kept
<1>3. \A a \in Actor : KeptOf(Written(a))' = KeptOf(Written(a))
  BY <1>1, <1>2 DEF Cleans, Kept
<1> QED  BY <1>3 DEF newest

LEMMA SaveNowCleans ==
  ASSUME Basics, NEW actors, SaveNow(actors)
  PROVE  /\ Cleans
         /\ cache' \in [Actor -> Entry] /\ db' \in [Actor -> [Type -> Version]]
         /\ \A a \in Actor : cache'[a].expired = cache[a].expired
<1>1. /\ cache \in [Actor -> Entry] /\ db \in [Actor -> [Type -> Version]]
      /\ db' = [a \in Actor |-> IF a \in actors THEN Written(a) ELSE db[a]]
      /\ cache' = [a \in Actor |-> IF a \in actors THEN [cache[a] EXCEPT !.dirty = {}] ELSE cache[a]]
  BY DEF Basics, SaveNow
<1>2. \A a \in Actor : /\ cache[a] \in Entry /\ db[a] \in [Type -> Version]
                       /\ Written(a) \in [Type -> Version]
  BY <1>1 DEF Written, Entry
<1>3. ASSUME NEW a \in Actor
      PROVE  /\ cache'[a] \in Entry /\ db'[a] \in [Type -> Version]
             /\ cache'[a].dirty \subseteq cache[a].dirty /\ cache'[a].expired = cache[a].expired
             /\ \A t \in Type : Newest(a, t)' = Newest(a, t)
  <2>1. CASE a \notin actors
    BY <1>1, <1>2, <2>1 DEF Newest
  <2>2. CASE a \in actors
    <3>1. db'[a] = Written(a) /\ cache'[a] = [cache[a] EXCEPT !.dirty = {}]
      BY <1>1, <2>2
    <3>2. cache'[a] \in Entry /\ cache'[a].dirty = {} /\ cache'[a].expired = cache[a].expired
      BY <1>2, <3>1 DEF Entry
    <3>3. \A t \in Type : Newest(a, t)' = Newest(a, t)
      BY <3>1, <3>2 DEF Newest, Written
    <3> QED  BY <1>2, <3>1, <3>2, <3>3
  <2> QED  BY <2>1, <2>2
<1> QED  BY <1>1, <1>3 DEF Cleans

LEMMA SaveOneCleans ==
  ASSUME Basics, NEW b, SaveOne(b)
  PROVE  /\ Cleans
         /\ cache' \in [Actor -> Entry] /\ db' \in [Actor -> [Type -> Version]]
         /\ \A a \in Actor : cache'[a].expired => cache[a].expired \/ cache'[a].dirty = {}
<1>1. cache \in [Actor -> Entry] /\ db \in [Actor -> [Type -> Version]]
  BY DEF Basics
<1>2. \A a \in Actor : /\ cache[a] \in Entry /\ db[a] \in [Type -> Version]
                       /\ Written(a) \in [Type -> Version]
  BY <1>1 DEF Written, Entry
<1>3. CASE b \notin Actor
  <2>1. cache' = cache /\ db' = db
    BY <1>1, <1>3 DEF SaveOne
  <2> QED  BY <1>1, <2>1 DEF Cleans, Newest
<1>4. CASE b \in Actor /\ cache[b].dirty = {}
  <2>1. cache' = [cache EXCEPT ![b].expired = @ \/ cache[b].due] /\ db' = db
    BY <1>4 DEF SaveOne
  <2>2. /\ \A a \in Actor : a # b => cache'[a] = cache[a]
        /\ cache'[b] \in Entry /\ cache'[b].dirty = cache[b].dirty /\ cache'[b].version = cache[b].version
        /\ cache' \in [Actor -> Entry]
    BY <1>1, <1>2, <1>4, <2>1 DEF Entry
  <2> QED  BY <1>1, <1>4, <2>1, <2>2 DEF Cleans, Newest
<1>5. CASE b \in Actor /\ cache[b].dirty # {} /\ ~ cache[b].due
  <2>1. cache' = cache /\ db' = db
    BY <1>5 DEF SaveOne
  <2> QED  BY <1>1, <2>1 DEF Cleans, Newest
<1>6. CASE b \in Actor /\ cache[b].dirty # {} /\ cache[b].due
  <2>1. /\ cache' = [cache EXCEPT ![b].dirty = {}, ![b].due = FALSE]
        /\ db' = [db EXCEPT ![b] = Written(b)]
    BY <1>6 DEF SaveOne
  <2>2. /\ \A a \in Actor : a # b => cache'[a] = cache[a] /\ db'[a] = db[a]
        /\ cache'[b] \in Entry /\ cache'[b].dirty = {} /\ cache'[b].expired = cache[b].expired
        /\ cache' \in [Actor -> Entry]
        /\ db'[b] = Written(b) /\ db' \in [Actor -> [Type -> Version]]
    BY <1>1, <1>2, <1>6, <2>1 DEF Entry
  <2>3. \A t \in Type : Newest(b, t)' = Newest(b, t)
    BY <2>2 DEF Newest, Written
  <2>4. \A a \in Actor : a # b => \A t \in Type : Newest(a, t)' = Newest(a, t)
    BY <2>2 DEF Newest
  <2> QED  BY <2>2, <2>3, <2>4 DEF Cleans
<1> QED  BY <1>3, <1>4, <1>5, <1>6

LEMMA RemoveCleans ==
  ASSUME Basics, CacheAssumption, db' = db,
         cache' = [a \in Actor |-> IF cache[a].expired THEN Unused ELSE cache[a]]
  PROVE  /\ Cleans /\ cache' \in [Actor -> Entry]
         /\ \A a \in Actor : ~ cache'[a].expired
<1>1. /\ cache \in [Actor -> Entry]
      /\ \A a \in Actor : cache[a].expired => cache[a].dirty = {}
  BY DEF Basics
<1>2. Unused \in Entry /\ Unused.dirty = {} /\ Unused.expired = FALSE
  BY VersionType DEF Unused, Entry
<1>3. \A a \in Actor : cache[a] \in Entry /\ cache[a].expired \in BOOLEAN
  BY <1>1 DEF Entry
<1> QED  BY <1>1, <1>2, <1>3 DEF Cleans, Newest

-----------------------------------------------------------------------------
(* The order of the messages *)

LEMMA NewestNumber ==
  ASSUME CacheAssumption, Basics, NEW a \in Actor, NEW t \in Type
  PROVE  Newest(a, t) \in Nat /\ sent[a][t] \in Nat
  BY VersionType DEF Basics, Newest, Entry

\* The tables are written, or an entry is removed.
LEMMA CleansKeeps ==
  ASSUME CacheAssumption, CacheInv, Cleans, Unhandled' = Unhandled, sent' = sent,
         \A a \in Actor : game'[a] # "in" => game[a] # "in"
  PROVE  Ascending' /\ LoadsComplete'
<1>1. Ascending'
  BY DEF CacheInv, Ascending, Cleans, IsSave
<1>2. ASSUME NEW q, NEW a \in Actor, NEW n, WrittenAfter(q, cache[a].dirty, a, n)
      PROVE  WrittenAfter(q, cache'[a].dirty, a, n)
  BY <1>2 DEF WrittenAfter, Cleans
<1>3. LoadsComplete'
  <2> SUFFICES ASSUME NEW a \in Actor
               PROVE  /\ \A i \in 1 .. Len(Unhandled) :
                           IsQuery(Unhandled[i], a) => WrittenAfter(Unhandled, cache'[a].dirty, a, i - 1)
                      /\ game'[a] # "in" => WrittenAfter(Unhandled, cache'[a].dirty, a, Len(Unhandled))
    BY DEF LoadsComplete
  <2> QED  BY <1>2 DEF CacheInv, LoadsComplete
<1> QED  BY <1>1, <1>3

LEMMA AppendKeeps ==
  ASSUME CacheAssumption, CacheInv, NEW m \in Message, Unhandled' = Append(Unhandled, m),
         UNCHANGED <<cache, db>>, sent' \in [Actor -> [Type -> Version]],
         \A a \in Actor, t \in Type :
           /\ sent[a][t] <= sent'[a][t]
           /\ IsSave(m, a, t) => sent[a][t] < m.version /\ m.version <= sent'[a][t]
           /\ IsSave(m, a, t) /\ t \in Kept => game'[a] = "in",
         \A a \in Actor :
           /\ IsQuery(m, a) => game[a] # "in"
           /\ game'[a] # "in" => game[a] # "in" \/ IsLogout(m, a)
  PROVE  Ascending' /\ LoadsComplete'
<1> DEFINE q == Unhandled
           r == Append(Unhandled, m)
<1>1. q \in Seq(Message) /\ Len(q) \in Nat
  BY UnhandledType DEF CacheInv
<1>2. Len(r) = Len(q) + 1 /\ r[Len(q) + 1] = m /\ \A i \in 1 .. Len(q) : r[i] = q[i]
  BY <1>1, AppendAt
<1>3. Unhandled' = r
  OBVIOUS
<1>4. \A a \in Actor, t \in Type : Newest(a, t)' = Newest(a, t)
  BY DEF Newest
<1>5. \A a \in Actor, t \in Type :
        Newest(a, t) \in Nat /\ sent[a][t] \in Nat /\ sent'[a][t] \in Nat
  BY NewestNumber, VersionType DEF CacheInv
<1>6. \A i \in 1 .. Len(q) : q[i].cmd = "save" => q[i].version \in Nat
  BY <1>1, UnhandledType, MessageType, VersionType DEF CacheInv
<1>7. m.cmd = "save" => m.version \in Nat
  BY MessageType, VersionType
<1>12. /\ \A i \in 1 .. Len(q) : \A a \in Actor, t \in Type :
            IsSave(q[i], a, t) => Newest(a, t) < q[i].version /\ q[i].version <= sent[a][t]
       /\ \A i, j \in 1 .. Len(q) : \A a \in Actor, t \in Type :
            i < j /\ IsSave(q[i], a, t) /\ IsSave(q[j], a, t) => q[i].version < q[j].version
       /\ \A a \in Actor, t \in Type : Newest(a, t) <= sent[a][t]
  BY DEF CacheInv, Ascending
<1>13. \A a \in Actor, t \in Type :
         /\ sent[a][t] <= sent'[a][t]
         /\ IsSave(m, a, t) => sent[a][t] < m.version /\ m.version <= sent'[a][t]
  OBVIOUS
<1> HIDE DEF q, r
<1>8. Ascending'
  <2>1. ASSUME NEW a \in Actor, NEW t \in Type PROVE Newest(a, t)' <= sent'[a][t]
    <3>1. Newest(a, t) \in Nat /\ sent[a][t] \in Nat /\ sent'[a][t] \in Nat
      BY <1>5
    <3>2. Newest(a, t)' = Newest(a, t) /\ Newest(a, t) <= sent[a][t] /\ sent[a][t] <= sent'[a][t]
      BY <1>4, <1>12, <1>13
    <3> QED  BY <3>1, <3>2
  <2>2. ASSUME NEW i \in 1 .. Len(r), NEW a \in Actor, NEW t \in Type, IsSave(r[i], a, t)
        PROVE  Newest(a, t)' < r[i].version /\ r[i].version <= sent'[a][t]
    <3>1. Newest(a, t) \in Nat /\ sent[a][t] \in Nat /\ sent'[a][t] \in Nat /\ sent[a][t] <= sent'[a][t]
          /\ Newest(a, t)' = Newest(a, t) /\ Newest(a, t) <= sent[a][t]
      BY <1>4, <1>5, <1>12, <1>13
    <3>2. CASE i \in 1 .. Len(q)
      <4>1. r[i] = q[i] /\ IsSave(q[i], a, t) /\ q[i].version \in Nat
        BY <1>2, <1>6, <2>2, <3>2 DEF IsSave
      <4>2. Newest(a, t) < q[i].version /\ q[i].version <= sent[a][t]
        BY <1>12, <3>2, <4>1
      <4> QED  BY <3>1, <4>1, <4>2
    <3>3. CASE i = Len(q) + 1
      <4>1. r[i] = m /\ IsSave(m, a, t) /\ m.version \in Nat
        BY <1>2, <1>7, <2>2, <3>3 DEF IsSave
      <4>2. sent[a][t] < m.version /\ m.version <= sent'[a][t]
        BY <1>13, <4>1
      <4> QED  BY <3>1, <4>1, <4>2
    <3> QED  BY <1>1, <1>2, <3>2, <3>3
  <2>3. ASSUME NEW i \in 1 .. Len(r), NEW j \in 1 .. Len(r), NEW a \in Actor, NEW t \in Type,
               i < j, IsSave(r[i], a, t), IsSave(r[j], a, t)
        PROVE  r[i].version < r[j].version
    <3>1. i \in 1 .. Len(q)
      BY <1>1, <1>2, <2>3
    <3>2. r[i] = q[i] /\ IsSave(q[i], a, t) /\ q[i].version \in Nat
      BY <1>2, <1>6, <2>3, <3>1 DEF IsSave
    <3>3. CASE j \in 1 .. Len(q)
      <4>1. r[j] = q[j] /\ IsSave(q[j], a, t)
        BY <1>2, <2>3, <3>3
      <4> QED  BY <1>12, <2>3, <3>1, <3>2, <3>3, <4>1
    <3>4. CASE j = Len(q) + 1
      <4>1. r[j] = m /\ IsSave(m, a, t) /\ m.version \in Nat
        BY <1>2, <1>7, <2>3, <3>4 DEF IsSave
      <4>2. q[i].version <= sent[a][t] /\ sent[a][t] < m.version /\ sent[a][t] \in Nat
        BY <1>5, <1>12, <1>13, <3>1, <3>2, <4>1
      <4> QED  BY <3>2, <4>1, <4>2
    <3> QED  BY <1>1, <1>2, <3>3, <3>4
  <2> QED  BY <1>3, <2>1, <2>2, <2>3 DEF Ascending
<1>9. ASSUME NEW a \in Actor, NEW n \in 0 .. Len(q), WrittenAfter(q, cache[a].dirty, a, n)
      PROVE  WrittenAfter(r, cache[a].dirty, a, n)
  <2>1. \A k \in 1 .. n : k \in 1 .. Len(q) /\ r[k] = q[k]
    BY <1>1, <1>2
  <2>2. \A t \in Kept : t \in cache[a].dirty => \E k \in 1 .. n : IsLogout(r[k], a)
    BY <1>9, <2>1 DEF WrittenAfter
  <2>3. ASSUME NEW t \in Kept, NEW j \in 1 .. n, IsSave(r[j], a, t)
        PROVE  \E k \in j + 1 .. n : IsLogout(r[k], a)
    <3>1. PICK k \in j + 1 .. n : IsLogout(q[k], a)
      BY <1>9, <2>1, <2>3 DEF WrittenAfter
    <3>2. k \in 1 .. n
      OBVIOUS
    <3> QED  BY <2>1, <3>1, <3>2
  <2> QED  BY <2>2, <2>3 DEF WrittenAfter
<1>10. ASSUME NEW a \in Actor, game'[a] # "in"
       PROVE  WrittenAfter(r, cache[a].dirty, a, Len(q) + 1)
  <2>1. CASE IsLogout(m, a)
    <3>1. \A t \in Kept : ~ IsSave(m, a, t)
      BY <2>1 DEF IsSave, IsLogout
    <3>2. Len(q) + 1 \in 1 .. Len(q) + 1 /\ IsLogout(r[Len(q) + 1], a)
      BY <1>1, <1>2, <2>1
    <3>3. ASSUME NEW t \in Kept, NEW j \in 1 .. Len(q) + 1, IsSave(r[j], a, t)
          PROVE  Len(q) + 1 \in j + 1 .. Len(q) + 1
      <4>1. j # Len(q) + 1
        BY <1>2, <3>1, <3>3
      <4> QED  BY <1>1, <4>1
    <3> QED  BY <3>2, <3>3 DEF WrittenAfter
  <2>2. CASE game[a] # "in"
    <3>1. \A t \in Kept : ~ IsSave(m, a, t)
      BY <1>10 DEF Kept
    <3>2. WrittenAfter(q, cache[a].dirty, a, Len(q))
      BY <2>2 DEF CacheInv, LoadsComplete, q
    <3>3. WrittenAfter(r, cache[a].dirty, a, Len(q))
      BY <1>1, <1>9, <3>2
    <3> QED  BY <1>1, <1>2, <3>1, <3>3 DEF WrittenAfter
  <2> QED  BY <1>10, <2>1, <2>2
<1>11. LoadsComplete'
  <2> SUFFICES ASSUME NEW a \in Actor
               PROVE  /\ \A i \in 1 .. Len(r) : IsQuery(r[i], a) => WrittenAfter(r, cache[a].dirty, a, i - 1)
                      /\ game'[a] # "in" => WrittenAfter(r, cache[a].dirty, a, Len(r))
    BY <1>3 DEF LoadsComplete
  <2>1. ASSUME NEW i \in 1 .. Len(q), IsQuery(r[i], a) PROVE WrittenAfter(r, cache[a].dirty, a, i - 1)
    <3>1. i - 1 \in 0 .. Len(q) /\ IsQuery(q[i], a)
      BY <1>1, <1>2, <2>1
    <3>2. WrittenAfter(q, cache[a].dirty, a, i - 1)
      BY <3>1 DEF CacheInv, LoadsComplete, q
    <3> QED  BY <1>9, <3>1, <3>2
  <2>2. ASSUME IsQuery(m, a) PROVE WrittenAfter(r, cache[a].dirty, a, Len(q))
    <3>1. WrittenAfter(q, cache[a].dirty, a, Len(q))
      BY <2>2 DEF CacheInv, LoadsComplete, q
    <3> QED  BY <1>1, <1>9, <3>1
  <2>3. ASSUME NEW i \in 1 .. Len(r), IsQuery(r[i], a) PROVE WrittenAfter(r, cache[a].dirty, a, i - 1)
    <3>1. CASE i \in 1 .. Len(q)
      BY <2>1, <2>3, <3>1
    <3>2. CASE i = Len(q) + 1
      <4>1. i - 1 = Len(q) /\ r[i] = m
        BY <1>1, <1>2, <3>2
      <4> QED  BY <2>2, <2>3, <4>1
    <3> QED  BY <1>1, <1>2, <3>1, <3>2
  <2>4. game'[a] # "in" => WrittenAfter(r, cache[a].dirty, a, Len(r))
    BY <1>2, <1>10
  <2> QED  BY <2>3, <2>4
<1> QED  BY <1>8, <1>11

LEMMA HandleKeeps ==
  ASSUME CacheAssumption, CacheInv, Unhandled # << >>, Unhandled' = Tail(Unhandled),
         UNCHANGED <<sent, game>>,
         \A a \in Actor, t \in Type :
           Newest(a, t)' = IF IsSave(Unhandled[1], a, t) THEN Unhandled[1].version ELSE Newest(a, t),
         \A a \in Actor :
           /\ \A t \in cache'[a].dirty : t \in cache[a].dirty \/ IsSave(Unhandled[1], a, t)
           /\ IsLogout(Unhandled[1], a) => cache'[a].dirty = {}
  PROVE  Ascending' /\ LoadsComplete'
<1> DEFINE q == Unhandled
           r == Tail(Unhandled)
<1>1. q \in Seq(Message)
  BY UnhandledType DEF CacheInv
<1>2. /\ Len(q) \in Nat /\ Len(q) > 0 /\ Len(r) = Len(q) - 1
      /\ \A i \in 1 .. Len(q) - 1 : r[i] = q[i + 1]
  BY <1>1, TailAt
<1>3. Unhandled' = r
  OBVIOUS
<1>4. \A a \in Actor, t \in Type : Newest(a, t) \in Nat /\ sent[a][t] \in Nat
  BY NewestNumber DEF CacheInv
<1>5. \A i \in 1 .. Len(q) : q[i].cmd = "save" => q[i].version \in Nat
  BY <1>1, UnhandledType, MessageType, VersionType DEF CacheInv
<1>6. /\ \A i \in 1 .. Len(q) : \A a \in Actor, t \in Type :
           IsSave(q[i], a, t) => Newest(a, t) < q[i].version /\ q[i].version <= sent[a][t]
      /\ \A i, j \in 1 .. Len(q) : \A a \in Actor, t \in Type :
           i < j /\ IsSave(q[i], a, t) /\ IsSave(q[j], a, t) => q[i].version < q[j].version
      /\ \A a \in Actor, t \in Type : Newest(a, t) <= sent[a][t]
  BY DEF CacheInv, Ascending
<1>7. \A a \in Actor, t \in Type :
        Newest(a, t)' = IF IsSave(q[1], a, t) THEN q[1].version ELSE Newest(a, t)
  OBVIOUS
<1>8. \A a \in Actor :
        /\ \A t \in cache'[a].dirty : t \in cache[a].dirty \/ IsSave(q[1], a, t)
        /\ IsLogout(q[1], a) => cache'[a].dirty = {}
  OBVIOUS
<1>9. \A a \in Actor :
        /\ \A i \in 1 .. Len(q) : IsQuery(q[i], a) => WrittenAfter(q, cache[a].dirty, a, i - 1)
        /\ game[a] # "in" => WrittenAfter(q, cache[a].dirty, a, Len(q))
  BY DEF CacheInv, LoadsComplete
<1> HIDE DEF q, r
<1>10. Ascending'
  <2>1. 1 \in 1 .. Len(q) /\ \A i \in 1 .. Len(r) : i + 1 \in 1 .. Len(q) /\ r[i] = q[i + 1] /\ 1 < i + 1
    BY <1>2
  <2>2. \A a \in Actor, t \in Type : Newest(a, t)' <= sent[a][t]
    BY <1>6, <1>7, <2>1
  <2>3. \A i \in 1 .. Len(r) : \A a \in Actor, t \in Type :
          IsSave(r[i], a, t) => Newest(a, t)' < r[i].version /\ r[i].version <= sent[a][t]
    BY <1>6, <1>7, <2>1
  <2>4. ASSUME NEW i \in 1 .. Len(r), NEW j \in 1 .. Len(r), NEW a \in Actor, NEW t \in Type,
               i < j, IsSave(r[i], a, t), IsSave(r[j], a, t)
        PROVE  r[i].version < r[j].version
    <3>1. /\ i + 1 \in 1 .. Len(q) /\ j + 1 \in 1 .. Len(q) /\ i + 1 < j + 1
          /\ r[i] = q[i + 1] /\ r[j] = q[j + 1]
      BY <1>2, <2>4
    <3>2. \A x, y \in 1 .. Len(q) :
            x < y /\ IsSave(q[x], a, t) /\ IsSave(q[y], a, t) => q[x].version < q[y].version
      BY <1>6
    <3> QED  BY <2>4, <3>1, <3>2
  <2> QED  BY <1>3, <2>2, <2>3, <2>4 DEF Ascending
<1>11. ASSUME NEW a \in Actor, NEW n \in 1 .. Len(q), WrittenAfter(q, cache[a].dirty, a, n)
       PROVE  WrittenAfter(r, cache'[a].dirty, a, n - 1)
  <2>1. ASSUME NEW t \in Kept, t \in cache'[a].dirty PROVE \E k \in 1 .. n - 1 : IsLogout(r[k], a)
    <3>1. CASE t \in cache[a].dirty
      <4>1. PICK k \in 1 .. n : IsLogout(q[k], a)
        BY <1>11, <3>1 DEF WrittenAfter
      <4>2. k # 1
        BY <1>8, <2>1, <4>1
      <4>3. k - 1 \in 1 .. n - 1 /\ r[k - 1] = q[k]
        BY <1>2, <4>2
      <4> QED  BY <4>1, <4>3
    <3>2. CASE IsSave(q[1], a, t)
      <4>1. 1 \in 1 .. n
        OBVIOUS
      <4>2. PICK k \in 2 .. n : IsLogout(q[k], a)
        BY <1>11, <3>2, <4>1 DEF WrittenAfter
      <4>3. k - 1 \in 1 .. n - 1 /\ r[k - 1] = q[k]
        BY <1>2
      <4> QED  BY <4>2, <4>3
    <3> QED  BY <1>8, <2>1, <3>1, <3>2
  <2>2. ASSUME NEW t \in Kept, NEW j \in 1 .. n - 1, IsSave(r[j], a, t)
        PROVE  \E k \in j + 1 .. n - 1 : IsLogout(r[k], a)
    <3>1. j + 1 \in 1 .. n /\ r[j] = q[j + 1]
      BY <1>2
    <3>2. PICK k \in j + 2 .. n : IsLogout(q[k], a)
      BY <1>11, <2>2, <3>1 DEF WrittenAfter
    <3>3. k - 1 \in j + 1 .. n - 1 /\ r[k - 1] = q[k]
      BY <1>2
    <3> QED  BY <3>2, <3>3
  <2> QED  BY <2>1, <2>2 DEF WrittenAfter
<1>12. LoadsComplete'
  <2> SUFFICES ASSUME NEW a \in Actor
               PROVE  /\ \A i \in 1 .. Len(r) : IsQuery(r[i], a) => WrittenAfter(r, cache'[a].dirty, a, i - 1)
                      /\ game[a] # "in" => WrittenAfter(r, cache'[a].dirty, a, Len(r))
    BY <1>3 DEF LoadsComplete
  <2>1. ASSUME NEW i \in 1 .. Len(r), IsQuery(r[i], a) PROVE WrittenAfter(r, cache'[a].dirty, a, i - 1)
    <3>1. i \in 1 .. Len(q) /\ i + 1 \in 1 .. Len(q) /\ r[i] = q[i + 1] /\ (i + 1) - 1 = i
      BY <1>2
    <3>2. WrittenAfter(q, cache[a].dirty, a, i)
      BY <1>9, <2>1, <3>1
    <3> QED  BY <1>11, <3>1, <3>2
  <2>2. Len(q) \in 1 .. Len(q)
    BY <1>2
  <2> QED  BY <1>2, <1>9, <1>11, <2>1, <2>2
<1> QED  BY <1>10, <1>12

-----------------------------------------------------------------------------
(* One step for each action *)

LEMMA InitInv ==
  ASSUME CacheAssumption, Init
  PROVE  CacheInv
<1>1. Basics
  BY VersionType DEF Init, Basics, Unused, Entry
<1>2. Unhandled = << >> /\ Len(Unhandled) = 0
  BY DEF Init, Unhandled
<1>3. \A a \in Actor : cache[a].dirty = {} /\ \A t \in Type : Newest(a, t) = 0 /\ sent[a][t] = 0
  BY DEF Init, Newest, Unused, NoData
<1>4. Ascending
  BY <1>2, <1>3 DEF Ascending
<1>5. LoadsComplete
  BY <1>2, <1>3 DEF LoadsComplete, WrittenAfter
<1> QED  BY <1>1, <1>4, <1>5 DEF CacheInv

\* A step that handles no message, and sends none.
LEMMA QuietKeeps ==
  ASSUME CacheAssumption, CacheInv, Cleans, Unhandled' = Unhandled, sent' = sent,
         \A a \in Actor : game'[a] # "in" => game[a] # "in",
         game' \in [Actor -> {"out", "asking", "in"}],
         msgs' \in Seq(Message), appended' \in Seq(Message), answers' \in Seq(Answer),
         pc' # "handle" => msgs' = << >>,
         cache' \in [Actor -> Entry], db' \in [Actor -> [Type -> Version]],
         \A a \in Actor : cache'[a].expired => cache'[a].dirty = {} /\ pc' \in {"save", "expire"}
  PROVE  CacheInv'
<1>1. Basics'
  BY DEF CacheInv, Basics
<1>2. Ascending' /\ LoadsComplete'
  BY CleansKeeps
<1> QED  BY <1>1, <1>2 DEF CacheInv

LEMMA CleansUnchanged ==
  ASSUME cache' = cache, db' = db
  PROVE  Cleans
  BY DEF Cleans, Newest

\* The logic server sends a message.
LEMMA AddKeeps ==
  ASSUME CacheAssumption, CacheInv, NEW m \in Message, AddMessage(m), answers' = answers,
         game' \in [Actor -> {"out", "asking", "in"}],
         sent' \in [Actor -> [Type -> Version]],
         \A a \in Actor, t \in Type :
           /\ sent[a][t] <= sent'[a][t]
           /\ IsSave(m, a, t) => sent[a][t] < m.version /\ m.version <= sent'[a][t]
           /\ IsSave(m, a, t) /\ t \in Kept => game'[a] = "in",
         \A a \in Actor :
           /\ IsQuery(m, a) => game[a] # "in"
           /\ game'[a] # "in" => game[a] # "in" \/ IsLogout(m, a)
  PROVE  CacheInv'
<1>1. Basics
  BY DEF CacheInv
<1>2. Unhandled' = Append(Unhandled, m) /\ appended' \in Seq(Message) /\ msgs' = msgs
  BY <1>1, AppendLast
<1>3. UNCHANGED <<cache, db, pc>>
  BY DEF AddMessage, cacheVars
<1>4. Basics'
  BY <1>1, <1>2, <1>3 DEF Basics
<1>5. Ascending' /\ LoadsComplete'
  BY <1>2, <1>3, AppendKeeps
<1> QED  BY <1>4, <1>5 DEF CacheInv

LEMMA EnterInv ==
  ASSUME CacheAssumption, CacheInv, NEW a \in Actor, Enter(a)
  PROVE  CacheInv'
<1> DEFINE m == Query(a)
<1>1. m \in Message /\ m.cmd = "query" /\ m.actor = a
  BY ReadMsgMade
<1>2. /\ AddMessage(m) /\ answers' = answers /\ sent' = sent
      /\ game[a] = "out" /\ game' = [game EXCEPT ![a] = "asking"]
  BY DEF Enter
<1>3. game \in [Actor -> {"out", "asking", "in"}] /\ sent \in [Actor -> [Type -> Version]]
  BY DEF CacheInv, Basics
<1> HIDE DEF m
<1>4. \A b \in Actor, t \in Type : ~ IsSave(m, b, t) /\ sent[b][t] <= sent'[b][t]
  BY <1>1, <1>2, <1>3, VersionType DEF IsSave
<1>5. \A b \in Actor : /\ IsQuery(m, b) => game[b] # "in"
                       /\ game'[b] # "in" => game[b] # "in"
  BY <1>1, <1>2, <1>3 DEF IsQuery
<1>6. game' \in [Actor -> {"out", "asking", "in"}]
  BY <1>2, <1>3
<1> QED  BY <1>1, <1>2, <1>3, <1>4, <1>5, <1>6, AddKeeps

LEMMA ChangeInv ==
  ASSUME CacheAssumption, CacheInv, NEW a \in Actor, NEW t \in Type, Change(a, t)
  PROVE  CacheInv'
<1> DEFINE v == sent[a][t] + 1
           m == SaveMsg(a, t, v)
<1>1. game \in [Actor -> {"out", "asking", "in"}] /\ sent \in [Actor -> [Type -> Version]]
  BY DEF CacheInv, Basics
<1>2. /\ answers' = answers /\ game' = game /\ sent[a][t] < MaxSaves[t]
      /\ sent' = [sent EXCEPT ![a][t] = @ + 1]
      /\ AddMessage(SaveMsg(a, t, sent'[a][t]))
      /\ t \in Kept => game[a] = "in"
  BY DEF Change, Kept
<1>3. sent[a][t] \in Nat /\ MaxSaves[t] \in Nat
  BY <1>1, VersionType DEF CacheAssumption
<1>4. v \in 0 .. MaxSaves[t]
  BY <1>2, <1>3
<1>5. v \in Version
  BY <1>4 DEF Version
<1>6. /\ sent' \in [Actor -> [Type -> Version]] /\ sent'[a][t] = v
      /\ \A b \in Actor, u \in Type : b # a \/ u # t => sent'[b][u] = sent[b][u]
  BY <1>1, <1>2, <1>5
<1>7. AddMessage(m)
  BY <1>2, <1>6
<1>8. m \in Message /\ m.cmd = "save" /\ m.actor = a /\ m.type = t /\ m.version = v
  BY <1>5, SaveMsgMade
<1>9. sent[a][t] < v
  BY <1>3
<1> HIDE DEF m, v
<1>10. \A b \in Actor, u \in Type : sent[b][u] \in Nat /\ sent'[b][u] \in Nat
  BY <1>1, <1>6, VersionType
<1>11. \A b \in Actor, u \in Type :
        /\ sent[b][u] <= sent'[b][u]
        /\ IsSave(m, b, u) => sent[b][u] < m.version /\ m.version <= sent'[b][u]
        /\ IsSave(m, b, u) /\ u \in Kept => game'[b] = "in"
  BY <1>2, <1>6, <1>8, <1>9, <1>10 DEF IsSave
<1>12. \A b \in Actor : ~ IsQuery(m, b) /\ (game'[b] # "in" => game[b] # "in")
  BY <1>2, <1>8 DEF IsQuery
<1> QED  BY <1>1, <1>2, <1>6, <1>7, <1>8, <1>11, <1>12, AddKeeps

LEMMA LeaveInv ==
  ASSUME CacheAssumption, CacheInv, NEW a \in Actor, Leave(a)
  PROVE  CacheInv'
<1> DEFINE m == Logout(a)
<1>1. m \in Message /\ m.cmd = "logout" /\ m.actor = a
  BY ReadMsgMade
<1>2. AddMessage(m) /\ answers' = answers /\ sent' = sent /\ game' = [game EXCEPT ![a] = "out"]
  BY DEF Leave
<1>3. game \in [Actor -> {"out", "asking", "in"}] /\ sent \in [Actor -> [Type -> Version]]
  BY DEF CacheInv, Basics
<1> HIDE DEF m
<1>4. \A b \in Actor, t \in Type : ~ IsSave(m, b, t) /\ sent[b][t] <= sent'[b][t]
  BY <1>1, <1>2, <1>3, VersionType DEF IsSave
<1>5. \A b \in Actor : /\ ~ IsQuery(m, b)
                       /\ game'[b] # "in" => game[b] # "in" \/ IsLogout(m, b)
  BY <1>1, <1>2, <1>3 DEF IsQuery, IsLogout
<1>6. game' \in [Actor -> {"out", "asking", "in"}]
  BY <1>2, <1>3
<1> QED  BY <1>1, <1>2, <1>3, <1>4, <1>5, <1>6, AddKeeps

LEMMA RankInv ==
  ASSUME CacheAssumption, CacheInv, Rank
  PROVE  CacheInv'
<1> DEFINE m == SaveRank
<1>1. m \in Message /\ m.cmd = "rank"
  BY RankMsgMade
<1>2. AddMessage(m) /\ answers' = answers /\ sent' = sent /\ game' = game
  BY DEF Rank, logicVars
<1>3. game \in [Actor -> {"out", "asking", "in"}] /\ sent \in [Actor -> [Type -> Version]]
  BY DEF CacheInv, Basics
<1> HIDE DEF m
<1>4. \A b \in Actor, t \in Type : ~ IsSave(m, b, t) /\ sent[b][t] <= sent'[b][t]
  BY <1>1, <1>2, <1>3, VersionType DEF IsSave
<1>5. \A b \in Actor : ~ IsQuery(m, b)
  BY <1>1 DEF IsQuery
<1> QED  BY <1>1, <1>2, <1>3, <1>4, <1>5, AddKeeps

\* Players that give up, answers that arrive, the end of the connection, the start of
\* a round of the handler, time: none of them touches what is stored.
LEMMA AsideInv ==
  ASSUME CacheAssumption, CacheInv,
         \/ \E a \in Actor : GiveUp(a) \/ Age(a)
         \/ Receive \/ Stop \/ Flush
         \/ \E saves \in BOOLEAN : RunCache(saves)
  PROVE  Cleans /\ CacheInv' /\ Unhandled' = Unhandled /\ sent' = sent
<1>1. Basics
  BY DEF CacheInv
<1>2. CASE \E a \in Actor : GiveUp(a)
  <2>1. PICK a \in Actor : GiveUp(a)
    BY <1>2
  <2>2. /\ UNCHANGED <<sent, appended, msgs, pc, cache, db, answers>>
        /\ game[a] = "asking" /\ game' = [game EXCEPT ![a] = "out"]
    BY <2>1 DEF GiveUp, queueVars, cacheVars
  <2>3. Unhandled' = Unhandled /\ Cleans
    BY <2>2, CleansUnchanged DEF Unhandled
  <2> QED  BY <1>1, <2>2, <2>3, QuietKeeps DEF Basics
<1>3. CASE \E a \in Actor : Age(a)
  <2>1. PICK a \in Actor : Age(a)
    BY <1>3
  <2>2. /\ UNCHANGED <<sent, game, appended, msgs, pc, db, answers>>
        /\ cache' = [cache EXCEPT ![a].due = TRUE]
    BY <2>1 DEF Age, logicVars, queueVars
  <2>3. /\ cache' \in [Actor -> Entry]
        /\ \A b \in Actor : /\ cache'[b].dirty = cache[b].dirty /\ cache'[b].version = cache[b].version
                            /\ cache'[b].expired = cache[b].expired
    <3>1. cache \in [Actor -> Entry] /\ cache[a] \in Entry
      BY <1>1 DEF Basics
    <3>2. cache'[a] = [cache[a] EXCEPT !.due = TRUE] /\ \A b \in Actor \ {a} : cache'[b] = cache[b]
      BY <2>2, <3>1
    <3>3. cache'[a] \in Entry /\ cache'[a].dirty = cache[a].dirty /\ cache'[a].version = cache[a].version
          /\ cache'[a].expired = cache[a].expired
      BY <3>1, <3>2 DEF Entry
    <3> QED  BY <2>2, <3>1, <3>2, <3>3
  <2>4. Unhandled' = Unhandled
    BY <2>2 DEF Unhandled
  <2>5. Cleans
    BY <2>2, <2>3 DEF Cleans, Newest
  <2> QED  BY <1>1, <2>2, <2>3, <2>4, <2>5, QuietKeeps DEF Basics
<1>4. CASE Receive
  <2>1. /\ UNCHANGED <<sent, appended, msgs, pc, cache, db>>
        /\ answers # << >> /\ answers' = Tail(answers)
        /\ game' = [game EXCEPT ![Head(answers).actor] = "in"] \/ game' = game
    BY <1>4 DEF Receive, queueVars, cacheVars
  <2>2. Unhandled' = Unhandled /\ Cleans
    BY <2>1, CleansUnchanged DEF Unhandled
  <2>3. answers' \in Seq(Answer)
    BY <1>1, <2>1 DEF Basics
  <2> QED  BY <1>1, <2>1, <2>2, <2>3, QuietKeeps DEF Basics
<1>5. CASE Stop
  <2>1. UNCHANGED <<game, sent, appended, msgs, pc, cache, db, answers>>
    BY <1>5 DEF Stop, logicVars, cacheVars
  <2>2. Unhandled' = Unhandled /\ Cleans
    BY <2>1, CleansUnchanged DEF Unhandled
  <2> QED  BY <1>1, <2>1, <2>2, QuietKeeps DEF Basics
<1>6. CASE Flush
  <2>1. /\ UNCHANGED <<game, sent, cache, db, answers>>
        /\ pc = "check" /\ msgs' = appended /\ appended' = << >> /\ pc' = "handle"
    BY <1>6 DEF Flush, logicVars, cacheVars
  <2>2. msgs = << >> /\ msgs \in Seq(Message) /\ appended \in Seq(Message)
    BY <1>1, <2>1 DEF Basics
  <2>3. Unhandled' = Unhandled
    BY <2>1, <2>2 DEF Unhandled
  <2>4. msgs' \in Seq(Message) /\ appended' \in Seq(Message)
    BY <2>1, <2>2
  <2>5. Cleans
    BY <2>1, CleansUnchanged
  <2> QED  BY <1>1, <2>1, <2>3, <2>4, <2>5, QuietKeeps DEF Basics
<1>7. CASE \E saves \in BOOLEAN : RunCache(saves)
  <2>1. /\ UNCHANGED <<game, sent, appended, msgs, cache, db, answers>>
        /\ pc = "handle" /\ msgs = << >> /\ pc' \in {"save", "check"}
    BY <1>7 DEF RunCache, logicVars, cacheVars
  <2>2. Unhandled' = Unhandled /\ Cleans
    BY <2>1, CleansUnchanged DEF Unhandled
  <2> QED  BY <1>1, <2>1, <2>2, QuietKeeps DEF Basics
<1> QED  BY <1>2, <1>3, <1>4, <1>5, <1>6, <1>7

\* The periodic save, the removal of expired entries, the last save.
LEMMA SaveInv ==
  ASSUME CacheAssumption, CacheInv, SaveData \/ RemoveExpireCache \/ Quit
  PROVE  Cleans /\ CacheInv' /\ Unhandled' = Unhandled /\ UNCHANGED <<sent, game, answers>>
<1>1. Basics
  BY DEF CacheInv
<1>2. CASE SaveData
  <2>1. /\ UNCHANGED <<game, sent, appended, msgs, answers>>
        /\ pc = "save" /\ pc' \in {"save", "expire"}
        /\ (cache' = cache /\ db' = db) \/ SaveOne(NextActor)
    BY <1>2 DEF SaveData, logicVars, queueVars
  <2>2. Unhandled' = Unhandled
    BY <2>1 DEF Unhandled
  <2>3. CASE cache' = cache /\ db' = db
    <3>1. Cleans
      BY <2>3, CleansUnchanged
    <3> QED  BY <1>1, <2>1, <2>2, <2>3, <3>1, QuietKeeps DEF Basics
  <2>4. CASE SaveOne(NextActor)
    <3>1. /\ Cleans /\ cache' \in [Actor -> Entry] /\ db' \in [Actor -> [Type -> Version]]
          /\ \A a \in Actor : cache'[a].expired => cache[a].expired \/ cache'[a].dirty = {}
      BY <1>1, <2>4, SaveOneCleans
    <3>2. \A a \in Actor : cache'[a].expired => cache'[a].dirty = {}
      BY <1>1, <3>1 DEF Basics, Cleans
    <3> QED  BY <1>1, <2>1, <2>2, <3>1, <3>2, QuietKeeps DEF Basics
  <2> QED  BY <2>1, <2>3, <2>4
<1>3. CASE RemoveExpireCache
  <2>1. /\ UNCHANGED <<game, sent, appended, msgs, answers>>
        /\ pc = "expire" /\ pc' = "check" /\ db' = db
        /\ cache' = [a \in Actor |-> IF cache[a].expired THEN Unused ELSE cache[a]]
    BY <1>3 DEF RemoveExpireCache, logicVars, queueVars
  <2>2. Unhandled' = Unhandled
    BY <2>1 DEF Unhandled
  <2>3. Cleans /\ cache' \in [Actor -> Entry] /\ \A a \in Actor : ~ cache'[a].expired
    BY <1>1, <2>1, RemoveCleans
  <2> QED  BY <1>1, <2>1, <2>2, <2>3, QuietKeeps DEF Basics
<1>4. CASE Quit
  <2>1. /\ UNCHANGED <<game, sent, appended, msgs, answers>>
        /\ pc = "check" /\ pc' = "ended"
        /\ SaveNow({list[i] : i \in Position + 1 .. Len(list)})
    BY <1>4 DEF Quit, SaveAll, logicVars, queueVars
  <2>2. Unhandled' = Unhandled
    BY <2>1 DEF Unhandled
  <2>3. /\ Cleans /\ cache' \in [Actor -> Entry] /\ db' \in [Actor -> [Type -> Version]]
        /\ \A a \in Actor : cache'[a].expired = cache[a].expired
    BY <1>1, <2>1, SaveNowCleans
  <2> QED  BY <1>1, <2>1, <2>2, <2>3, QuietKeeps DEF Basics
<1> QED  BY <1>2, <1>3, <1>4

\* A message is handled.
LEMMA HandledKeeps ==
  ASSUME CacheAssumption, CacheInv, NEW cmd, Handles(cmd), Handled,
         cache' \in [Actor -> Entry], db' \in [Actor -> [Type -> Version]],
         answers' \in Seq(Answer),
         \A a \in Actor : cache'[a].expired = cache[a].expired,
         \A a \in Actor, t \in Type :
           Newest(a, t)' = IF IsSave(Head(msgs), a, t) THEN Head(msgs).version ELSE Newest(a, t),
         \A a \in Actor :
           /\ \A t \in cache'[a].dirty : t \in cache[a].dirty \/ IsSave(Head(msgs), a, t)
           /\ IsLogout(Head(msgs), a) => cache'[a].dirty = {}
  PROVE  CacheInv'
<1>1. Basics
  BY DEF CacheInv
<1>2. /\ pc = "handle" /\ msgs # << >> /\ msgs' = Tail(msgs)
      /\ UNCHANGED <<game, sent, appended, pc>>
  BY DEF Handles, Handled, logicVars, queueVars
<1>3. /\ Unhandled # << >> /\ Head(msgs) = Unhandled[1]
      /\ Unhandled' = Tail(Unhandled) /\ msgs' \in Seq(Message)
  BY <1>1, <1>2, HandleFirst
<1>4. \A a \in Actor : ~ cache[a].expired
  BY <1>1, <1>2 DEF Basics
<1>5. Basics'
  BY <1>1, <1>2, <1>3, <1>4 DEF Basics
<1>6. Ascending' /\ LoadsComplete'
  BY <1>2, <1>3, HandleKeeps
<1> QED  BY <1>5, <1>6 DEF CacheInv

LEMMA HeadType ==
  ASSUME Basics, NEW cmd, Handles(cmd)
  PROVE  Head(msgs) \in Message /\ Head(msgs).cmd = cmd
  BY DEF Basics, Handles

LEMMA HandleSaveInv ==
  ASSUME CacheAssumption, CacheInv, HandleSave
  PROVE  /\ CacheInv' /\ answers' = answers
         /\ Head(msgs).actor \in Actor /\ Head(msgs).type \in Type /\ Head(msgs).version \in Version
         /\ Newest(Head(msgs).actor, Head(msgs).type) < Head(msgs).version
         /\ \A a \in Actor, t \in Type :
              Newest(a, t)' = IF a = Head(msgs).actor /\ t = Head(msgs).type
                              THEN Head(msgs).version ELSE Newest(a, t)
<1> DEFINE m == Head(msgs)
           b == m.actor
           u == m.type
           v == m.version
<1>1. Basics
  BY DEF CacheInv
<1>2. Handles("save") /\ Handled /\ answers' = answers
  BY DEF HandleSave
<1>3. /\ m \in Message /\ m.cmd = "save"
      /\ b \in Actor /\ u \in Type /\ v \in Version
  BY <1>1, <1>2, HeadType, MessageType
<1>4. /\ cache \in [Actor -> Entry] /\ db \in [Actor -> [Type -> Version]]
  BY <1>1 DEF Basics
<1>5. \/ u \in Direct /\ cache' = cache /\ db' = [db EXCEPT ![b][u] = v]
      \/ /\ u \notin Direct /\ db' = db
         /\ cache' = [cache EXCEPT ![b].version[u] = v, ![b].dirty = @ \cup {u}]
  BY DEF HandleSave, Cached
<1> HIDE DEF v, u, b, m
<1>6. /\ cache' \in [Actor -> Entry] /\ db' \in [Actor -> [Type -> Version]]
      /\ \A a \in Actor : /\ cache'[a].expired = cache[a].expired
                          /\ \A t \in cache'[a].dirty : t \in cache[a].dirty \/ (a = b /\ t = u)
      /\ \A a \in Actor, t \in Type :
           Newest(a, t)' = IF a = b /\ t = u THEN v ELSE Newest(a, t)
  <2>1. CASE u \in Direct /\ cache' = cache /\ db' = [db EXCEPT ![b][u] = v]
    <3>1. u \notin cache[b].dirty
      BY <1>3, <1>4, <2>1 DEF Entry
    <3>2. /\ db' \in [Actor -> [Type -> Version]]
          /\ \A a \in Actor, t \in Type : db'[a][t] = IF a = b /\ t = u THEN v ELSE db[a][t]
      BY <1>3, <1>4, <2>1
    <3> QED  BY <1>4, <2>1, <3>1, <3>2 DEF Newest
  <2>2. CASE /\ u \notin Direct /\ db' = db
             /\ cache' = [cache EXCEPT ![b].version[u] = v, ![b].dirty = @ \cup {u}]
    <3> DEFINE f == [cache[b].version EXCEPT ![u] = v]
    <3>1. cache[b] \in Entry /\ f \in [Type -> Version]
      BY <1>3, <1>4 DEF Entry
    <3>2. \A t \in Type : f[t] = IF t = u THEN v ELSE cache[b].version[t]
      BY <1>3, <3>1 DEF Entry
    <3>3. /\ \A a \in Actor : a # b => cache'[a] = cache[a]
          /\ cache'[b] = [cache[b] EXCEPT !.version = f, !.dirty = @ \cup {u}]
          /\ cache' = [cache EXCEPT ![b] = [cache[b] EXCEPT !.version = f, !.dirty = @ \cup {u}]]
      BY <1>3, <1>4, <2>2
    <3> HIDE DEF f
    <3>4. /\ [cache[b] EXCEPT !.version = f, !.dirty = @ \cup {u}] \in Entry
          /\ cache'[b].dirty = cache[b].dirty \cup {u} /\ cache'[b].version = f
          /\ cache'[b].expired = cache[b].expired
      BY <1>3, <2>2, <3>1, <3>3 DEF Entry
    <3>5. cache' \in [Actor -> Entry]
      BY <1>3, <1>4, <3>3, <3>4
    <3>6. ASSUME NEW a \in Actor, NEW t \in Type
          PROVE  /\ cache'[a].expired = cache[a].expired
                 /\ t \in cache'[a].dirty => t \in cache[a].dirty \/ (a = b /\ t = u)
                 /\ Newest(a, t)' = IF a = b /\ t = u THEN v ELSE Newest(a, t)
      <4>1. CASE a # b
        BY <2>2, <3>3, <4>1 DEF Newest
      <4>2. CASE a = b
        BY <2>2, <3>2, <3>4, <4>2 DEF Newest
      <4> QED  BY <4>1, <4>2
    <3>7. \A a \in Actor : cache'[a].expired = cache[a].expired /\ cache'[a].dirty \subseteq Type
      BY <3>3, <3>4, <3>5 DEF Entry
    <3> QED  BY <1>4, <2>2, <3>5, <3>6, <3>7
  <2> QED  BY <1>5, <2>1, <2>2
<1>7. \A a \in Actor, t \in Type : IsSave(m, a, t) <=> a = b /\ t = u
  BY <1>3 DEF IsSave, b, u
<1>8. \A a \in Actor : ~ IsLogout(m, a)
  BY <1>3 DEF IsLogout
<1>9. \A a \in Actor : \A t \in cache'[a].dirty : t \in Type
  BY <1>6 DEF Entry
<1>10. CacheInv'
  <2>1. answers' \in Seq(Answer)
    BY <1>1, <1>2 DEF Basics
  <2>2. \A a \in Actor, t \in Type :
          Newest(a, t)' = IF IsSave(Head(msgs), a, t) THEN Head(msgs).version ELSE Newest(a, t)
    BY <1>6, <1>7 DEF m, v
  <2>3. \A a \in Actor :
          /\ \A t \in cache'[a].dirty : t \in cache[a].dirty \/ IsSave(Head(msgs), a, t)
          /\ IsLogout(Head(msgs), a) => cache'[a].dirty = {}
    BY <1>6, <1>7, <1>8, <1>9 DEF m
  <2> QED  BY <1>2, <1>6, <2>1, <2>2, <2>3, HandledKeeps
<1>11. Newest(b, u) < v
  <2>1. Unhandled # << >> /\ m = Unhandled[1]
    BY <1>1, <1>2, HandleFirst DEF Handles, Handled, queueVars, m
  <2>2. 1 \in 1 .. Len(Unhandled)
    BY <1>1, <2>1, UnhandledType
  <2>3. IsSave(Unhandled[1], b, u)
    BY <1>3, <1>7, <2>1
  <2> QED  BY <1>3, <2>1, <2>2, <2>3 DEF CacheInv, Ascending, v
<1> QED  BY <1>2, <1>3, <1>6, <1>10, <1>11 DEF m, b, u, v

\* The rest of the messages leave the store as it is.
LEMMA HandleOtherInv ==
  ASSUME CacheAssumption, CacheInv, HandleQuery \/ HandleLogout \/ HandleRank
  PROVE  CacheInv' /\ Cleans
<1>1. Basics
  BY DEF CacheInv
<1>2. ASSUME NEW cmd \in {"query", "logout", "rank"}, Handles(cmd), Handled, Cleans,
             cache' \in [Actor -> Entry], db' \in [Actor -> [Type -> Version]],
             answers' \in Seq(Answer),
             \A a \in Actor : cache'[a].expired = cache[a].expired,
             \A a \in Actor : IsLogout(Head(msgs), a) => cache'[a].dirty = {}
      PROVE  CacheInv'
  <2>1. Head(msgs).cmd = cmd
    BY <1>2 DEF Handles
  <2>2. \A a \in Actor, t \in Type : ~ IsSave(Head(msgs), a, t)
    BY <1>2, <2>1 DEF IsSave
  <2>3. \A a \in Actor, t \in Type :
          Newest(a, t)' = IF IsSave(Head(msgs), a, t) THEN Head(msgs).version ELSE Newest(a, t)
    BY <1>2, <2>2 DEF Cleans
  <2>4. \A a \in Actor :
          /\ \A t \in cache'[a].dirty : t \in cache[a].dirty \/ IsSave(Head(msgs), a, t)
          /\ IsLogout(Head(msgs), a) => cache'[a].dirty = {}
    BY <1>2 DEF Cleans
  <2> QED  BY <1>2, <2>3, <2>4, HandledKeeps
<1>3. CASE HandleQuery
  <2> DEFINE a == Head(msgs).actor
  <2>1. /\ Handles("query") /\ Handled /\ cache' = cache /\ db' = db
        /\ answers' = Append(answers, [actor |-> a, data |-> db[a]])
    BY <1>3 DEF HandleQuery, cacheVars
  <2>2. a \in Actor /\ Head(msgs).cmd = "query"
    BY <1>1, <2>1, HeadType, MessageType
  <2>3. answers' \in Seq(Answer)
    <3>1. [actor |-> a, data |-> db[a]] \in Answer /\ answers \in Seq(Answer)
      BY <1>1, <2>2 DEF Basics, Answer
    <3> QED  BY <2>1, <3>1
  <2>4. Cleans
    BY <2>1, CleansUnchanged
  <2>5. \A b \in Actor : ~ IsLogout(Head(msgs), b)
    BY <2>2 DEF IsLogout
  <2>6. cache' \in [Actor -> Entry] /\ db' \in [Actor -> [Type -> Version]]
    BY <1>1, <2>1 DEF Basics
  <2> HIDE DEF a
  <2> QED  BY <1>2, <2>1, <2>3, <2>4, <2>5, <2>6
<1>4. CASE HandleLogout
  <2>1. Handles("logout") /\ Handled /\ SaveNow({Head(msgs).actor}) /\ answers' = answers
    BY <1>4 DEF HandleLogout
  <2>2. /\ Cleans /\ cache' \in [Actor -> Entry] /\ db' \in [Actor -> [Type -> Version]]
        /\ \A a \in Actor : cache'[a].expired = cache[a].expired
    BY <1>1, <2>1, SaveNowCleans
  <2>3. \A a \in Actor : IsLogout(Head(msgs), a) => cache'[a].dirty = {}
    BY <1>1, <2>1 DEF IsLogout, SaveNow, Basics, Entry
  <2>4. answers' \in Seq(Answer)
    BY <1>1, <2>1 DEF Basics
  <2> QED  BY <1>2, <2>1, <2>2, <2>3, <2>4
<1>5. CASE HandleRank
  <2>1. /\ Handles("rank") /\ Handled /\ answers' = answers
        /\ SaveNow({list[i] : i \in Position + 1 .. Len(list)})
    BY <1>5 DEF HandleRank, SaveAll
  <2>2. /\ Cleans /\ cache' \in [Actor -> Entry] /\ db' \in [Actor -> [Type -> Version]]
        /\ \A a \in Actor : cache'[a].expired = cache[a].expired
    BY <1>1, <2>1, SaveNowCleans
  <2>3. \A a \in Actor : ~ IsLogout(Head(msgs), a)
    BY <2>1 DEF IsLogout, Handles
  <2>4. answers' \in Seq(Answer)
    BY <1>1, <2>1 DEF Basics
  <2> QED  BY <1>2, <2>1, <2>2, <2>3, <2>4
<1> QED  BY <1>3, <1>4, <1>5

LEMMA NextInv ==
  ASSUME CacheAssumption, CacheInv, [Next]_vars
  PROVE  CacheInv'
<1>1. CASE \E a \in Actor : Enter(a)
  BY <1>1, EnterInv
<1>2. CASE \E a \in Actor, t \in Type : Change(a, t)
  BY <1>2, ChangeInv
<1>3. CASE \E a \in Actor : Leave(a)
  BY <1>3, LeaveInv
<1>4. CASE Rank
  BY <1>4, RankInv
<1>5. CASE \/ \E a \in Actor : GiveUp(a) \/ Age(a)
           \/ Receive \/ Stop \/ Flush
           \/ \E saves \in BOOLEAN : RunCache(saves)
  BY <1>5, AsideInv
<1>6. CASE SaveData \/ RemoveExpireCache \/ Quit
  BY <1>6, SaveInv
<1>7. CASE HandleSave
  BY <1>7, HandleSaveInv
<1>8. CASE HandleQuery \/ HandleLogout \/ HandleRank
  BY <1>8, HandleOtherInv
<1>9. CASE UNCHANGED vars
  <2>1. UNCHANGED <<game, sent, appended, msgs, pc, cache, db, answers>>
    BY <1>9 DEF vars, logicVars, queueVars, cacheVars
  <2>2. Unhandled' = Unhandled /\ Cleans
    BY <2>1, CleansUnchanged DEF Unhandled
  <2> QED  BY <2>1, <2>2, QuietKeeps DEF CacheInv, Basics
<1> QED  BY <1>1, <1>2, <1>3, <1>4, <1>5, <1>6, <1>7, <1>8, <1>9
         DEF Next, Environment, Handler, HandleMessage

\* The saves of every part are handled in their order, and a load finds the tables
\* complete although the cache holds back what it was told.
THEOREM CacheInvariant == Spec => []CacheInv
<1>1. Init => CacheInv
  BY CacheAssumption, InitInv
<1>2. CacheInv /\ [Next]_vars => CacheInv'
  BY CacheAssumption, NextInv
<1> QED  BY <1>1, <1>2, PTL DEF Spec

-----------------------------------------------------------------------------
(* The cache implements the store *)

LEMMA AnswersSame ==
  ASSUME answers' = answers
  PROVE  keptAnswers' = keptAnswers
  BY DEF keptAnswers

LEMMA AnswersAppended ==
  ASSUME Basics, NEW x \in Answer, answers' = Append(answers, x)
  PROVE  keptAnswers' = Append(keptAnswers, [actor |-> x.actor, data |-> KeptOf(x.data)])
<1> DEFINE S == [actor : Actor, data : [Kept -> Version]]
           f(y) == [actor |-> y.actor, data |-> KeptOf(y.data)]
<1>1. answers \in Seq(Answer) /\ Len(answers) \in Nat /\ DOMAIN answers = 1 .. Len(answers)
  BY DEF Basics
<1>2. \A y \in Answer : f(y) \in S
  BY DEF Answer, KeptOf, Kept
<1>3. /\ Len(answers') = Len(answers) + 1 /\ DOMAIN answers' = 1 .. Len(answers) + 1
      /\ answers'[Len(answers) + 1] = x /\ \A i \in 1 .. Len(answers) : answers'[i] = answers[i]
  BY <1>1, AppendAt
<1> HIDE DEF f, S
<1>4. keptAnswers = [i \in 1 .. Len(answers) |-> f(answers[i])]
  BY <1>1 DEF keptAnswers, f
<1>5. keptAnswers' = [i \in 1 .. Len(answers) + 1 |-> f(answers'[i])]
  BY <1>3 DEF keptAnswers, f
<1>6. \A i \in 1 .. Len(answers) : answers[i] \in Answer
  BY <1>1
<1>7. keptAnswers \in Seq(S) /\ Len(keptAnswers) = Len(answers)
  <2>1. keptAnswers \in [1 .. Len(answers) -> S]
    BY <1>2, <1>4, <1>6
  <2> QED  BY <1>1, <2>1
<1>8. keptAnswers' \in Seq(S) /\ Len(keptAnswers') = Len(answers) + 1
  <2>1. \A i \in 1 .. Len(answers) + 1 : answers'[i] \in Answer
    BY <1>1, <1>3, <1>6
  <2>2. keptAnswers' \in [1 .. Len(answers) + 1 -> S]
    BY <1>2, <1>5, <2>1
  <2> QED  BY <1>1, <2>2
<1>9. f(x) \in S
  BY <1>2
<1>10. /\ Append(keptAnswers, f(x)) \in Seq(S) /\ Len(Append(keptAnswers, f(x))) = Len(answers) + 1
       /\ Append(keptAnswers, f(x))[Len(answers) + 1] = f(x)
       /\ \A i \in 1 .. Len(answers) : Append(keptAnswers, f(x))[i] = keptAnswers[i]
  BY <1>7, <1>9, AppendAt
<1>11. \A i \in 1 .. Len(answers) + 1 : keptAnswers'[i] = Append(keptAnswers, f(x))[i]
  BY <1>1, <1>3, <1>4, <1>5, <1>10
<1>12. keptAnswers' = Append(keptAnswers, f(x))
  BY <1>8, <1>10, <1>11, SeqEqual
<1> QED  BY <1>12 DEF f

LEMMA AnswersTail ==
  ASSUME Basics, answers # << >>, answers' = Tail(answers)
  PROVE  keptAnswers # << >> /\ keptAnswers' = Tail(keptAnswers)
<1> DEFINE S == [actor : Actor, data : [Kept -> Version]]
           f(y) == [actor |-> y.actor, data |-> KeptOf(y.data)]
<1>1. answers \in Seq(Answer) /\ Len(answers) \in Nat /\ DOMAIN answers = 1 .. Len(answers)
  BY DEF Basics
<1>2. \A y \in Answer : f(y) \in S
  BY DEF Answer, KeptOf, Kept
<1>3. /\ Len(answers) > 0 /\ answers' \in Seq(Answer)
      /\ Len(answers') = Len(answers) - 1 /\ DOMAIN answers' = 1 .. Len(answers) - 1
      /\ \A i \in 1 .. Len(answers) - 1 : answers'[i] = answers[i + 1]
  BY <1>1, TailAt
<1> HIDE DEF f, S
<1>4. keptAnswers = [i \in 1 .. Len(answers) |-> f(answers[i])]
  BY <1>1 DEF keptAnswers, f
<1>5. keptAnswers' = [i \in 1 .. Len(answers) - 1 |-> f(answers'[i])]
  BY <1>3 DEF keptAnswers, f
<1>6. \A i \in 1 .. Len(answers) : answers[i] \in Answer
  BY <1>1
<1>7. keptAnswers \in Seq(S) /\ Len(keptAnswers) = Len(answers)
  <2>1. keptAnswers \in [1 .. Len(answers) -> S]
    BY <1>2, <1>4, <1>6
  <2> QED  BY <1>1, <2>1
<1>8. keptAnswers' \in Seq(S) /\ Len(keptAnswers') = Len(answers) - 1
  <2>1. \A i \in 1 .. Len(answers) - 1 : answers'[i] \in Answer
    BY <1>3
  <2>2. keptAnswers' \in [1 .. Len(answers) - 1 -> S]
    BY <1>2, <1>5, <2>1
  <2>3. Len(answers) - 1 \in Nat
    BY <1>1, <1>3
  <2> QED  BY <2>2, <2>3
<1>9. keptAnswers # << >>
  BY <1>3, <1>7
<1>10. /\ Tail(keptAnswers) \in Seq(S) /\ Len(Tail(keptAnswers)) = Len(answers) - 1
       /\ \A i \in 1 .. Len(answers) - 1 : Tail(keptAnswers)[i] = keptAnswers[i + 1]
  BY <1>7, <1>9, TailAt
<1>11. \A i \in 1 .. Len(answers) - 1 : keptAnswers'[i] = Tail(keptAnswers)[i]
  <2> SUFFICES ASSUME NEW i \in 1 .. Len(answers) - 1 PROVE keptAnswers'[i] = Tail(keptAnswers)[i]
    OBVIOUS
  <2>1. i + 1 \in 1 .. Len(answers)
    BY <1>1
  <2> QED  BY <1>3, <1>4, <1>5, <1>10, <2>1
<1>12. keptAnswers' = Tail(keptAnswers)
  BY <1>8, <1>10, <1>11, SeqEqual
<1> QED  BY <1>9, <1>12

LEMMA InitStores ==
  ASSUME CacheAssumption, Init
  PROVE  Store!Init
<1>1. \A a \in Actor : Written(a) = [t \in Type |-> 0]
  BY DEF Init, Written, Unused, NoData
<1>2. newest = [a \in Actor |-> [t \in Kept |-> 0]]
  BY <1>1 DEF newest, KeptOf, Kept
<1>3. answers = << >> /\ keptAnswers = << >>
  BY DEF Init, keptAnswers
<1> QED  BY <1>2, <1>3 DEF Store!Init

\* What is said about one part holds for all the store knows.
LEMMA NewestAt ==
  /\ newest = [a \in Actor |-> [t \in Kept |-> Newest(a, t)]]
  /\ newest' = [a \in Actor |-> [t \in Kept |-> Newest(a, t)']]
<1>1. \A a \in Actor : KeptOf(Written(a)) = [t \in Kept |-> Newest(a, t)]
  BY DEF KeptOf, Written, Newest, Kept
<1>2. \A a \in Actor : KeptOf(Written(a))' = [t \in Kept |-> Newest(a, t)']
  BY DEF KeptOf, Written, Newest, Kept
<1> QED  BY <1>1, <1>2 DEF newest

\* The load that is handled finds all of the character in the tables.
LEMMA LoadFindsNewest ==
  ASSUME CacheInv, HandleQuery
  PROVE  \E b \in Actor :
           /\ Head(msgs).cmd = "query" /\ Head(msgs).actor = b
           /\ [actor |-> b, data |-> db[b]] \in Answer
           /\ answers' = Append(answers, [actor |-> b, data |-> db[b]])
           /\ \A t \in Kept : db[b][t] = Newest(b, t)
<1>1. Basics
  BY DEF CacheInv
<1>2. PICK b \in Actor : b = Head(msgs).actor
  BY <1>1, HeadType, MessageType DEF HandleQuery
<1>3. /\ Handles("query") /\ msgs' = Tail(msgs) /\ appended' = appended
      /\ answers' = Append(answers, [actor |-> b, data |-> db[b]])
  BY <1>2 DEF HandleQuery, Handled, queueVars
<1>4. Unhandled # << >> /\ Head(msgs) = Unhandled[1]
  BY <1>1, <1>3, HandleFirst DEF Handles
<1>5. 1 \in 1 .. Len(Unhandled) /\ IsQuery(Unhandled[1], b)
  BY <1>1, <1>2, <1>3, <1>4, UnhandledType DEF Handles, IsQuery
<1>6. WrittenAfter(Unhandled, cache[b].dirty, b, 0)
  BY <1>5 DEF CacheInv, LoadsComplete
<1>7. \A t \in Kept : db[b][t] = Newest(b, t)
  BY <1>6 DEF WrittenAfter, Newest
<1>8. [actor |-> b, data |-> db[b]] \in Answer
  BY <1>1 DEF Basics, Answer
<1> QED  BY <1>2, <1>3, <1>7, <1>8 DEF Handles

LEMMA NextStores ==
  ASSUME CacheAssumption, CacheInv, [Next]_vars
  PROVE  [Store!Next]_(Store!vars)
<1>1. Basics
  BY DEF CacheInv
<1>2. CASE Cleans /\ answers' = answers
  BY <1>2, CleansKeepsStore, AnswersSame DEF Store!vars
<1>3. CASE \/ \E a \in Actor : Enter(a) \/ GiveUp(a) \/ Leave(a) \/ \E t \in Type : Change(a, t)
           \/ Rank \/ Stop \/ Flush \/ \E saves \in BOOLEAN : RunCache(saves)
           \/ UNCHANGED vars
  <2>1. cache' = cache /\ db' = db /\ answers' = answers
    BY <1>3 DEF Enter, GiveUp, Leave, Change, Rank, Stop, Flush, RunCache, AddMessage, cacheVars, vars
  <2> QED  BY <1>2, <2>1, CleansUnchanged
<1>4. CASE \E a \in Actor : Age(a)
  <2>1. Cleans /\ answers' = answers
    BY <1>4, AsideInv DEF Age
  <2> QED  BY <1>2, <2>1
<1>5. CASE SaveData \/ RemoveExpireCache \/ Quit
  BY <1>2, <1>5, SaveInv
<1>6. CASE Receive
  <2>1. Cleans /\ answers # << >> /\ answers' = Tail(answers)
    BY <1>6, AsideInv DEF Receive
  <2>2. newest' = newest /\ keptAnswers # << >> /\ keptAnswers' = Tail(keptAnswers)
    BY <1>1, <2>1, CleansKeepsStore, AnswersTail
  <2> QED  BY <2>2 DEF Store!Next, Store!Receive
<1>7. CASE HandleLogout \/ HandleRank
  <2>1. Cleans /\ answers' = answers
    BY <1>7, HandleOtherInv DEF HandleLogout, HandleRank
  <2> QED  BY <1>2, <2>1
<1>8. CASE HandleQuery
  <2>1. PICK b \in Actor :
          /\ [actor |-> b, data |-> db[b]] \in Answer
          /\ answers' = Append(answers, [actor |-> b, data |-> db[b]])
          /\ \A t \in Kept : db[b][t] = Newest(b, t)
    BY <1>8, LoadFindsNewest
  <2>2. KeptOf(db[b]) = newest[b]
    BY <2>1, NewestAt DEF KeptOf
  <2>3. keptAnswers' = Append(keptAnswers, [actor |-> b, data |-> newest[b]])
    BY <1>1, <2>1, <2>2, AnswersAppended
  <2>4. newest' = newest
    BY <1>8, HandleOtherInv, CleansKeepsStore
  <2> QED  BY <2>3, <2>4 DEF Store!Next, Store!Load
<1>9. CASE HandleSave
  <2>1. PICK b \in Actor, u \in Type, v \in Version :
          b = Head(msgs).actor /\ u = Head(msgs).type /\ v = Head(msgs).version
    BY <1>9, HandleSaveInv
  <2>2. /\ answers' = answers /\ Newest(b, u) < v
        /\ \A a \in Actor, t \in Type :
             Newest(a, t)' = IF a = b /\ t = u THEN v ELSE Newest(a, t)
    BY <1>9, <2>1, HandleSaveInv
  <2>3. keptAnswers' = keptAnswers
    BY <2>2, AnswersSame
  <2>4. CASE u \in Kept
    <3>1. newest' = [newest EXCEPT ![b][u] = v]
      BY <2>2, <2>4, NewestAt DEF Kept
    <3>2. v > newest[b][u]
      BY <2>2, <2>4, NewestAt, NewestNumber, <1>1, VersionType
    <3> QED  BY <2>3, <2>4, <3>1, <3>2 DEF Store!Next, Store!Save
  <2>5. CASE u \notin Kept
    <3>1. newest' = newest
      BY <2>2, <2>5, NewestAt DEF Kept
    <3> QED  BY <2>3, <3>1 DEF Store!vars
  <2> QED  BY <2>4, <2>5
<1> QED  BY <1>3, <1>4, <1>5, <1>6, <1>7, <1>8, <1>9 DEF Next, Environment, Handler, HandleMessage

\* The cache cannot be told from a store without one: what was handled is neither
\* lost nor replaced by something older, and loads, which read the tables only, are
\* answered with the newest data of the parts that are saved in the game.
THEOREM CacheImplementsStore == Spec => ImplementsStore
<1>1. Init => Store!Init
  BY CacheAssumption, InitStores
<1>2. CacheInv /\ [Next]_vars => [Store!Next]_(Store!vars)
  BY CacheAssumption, NextStores
<1> QED  BY <1>1, <1>2, CacheInvariant, PTL DEF Spec, ImplementsStore, Store!Spec

-----------------------------------------------------------------------------
(* A character comes back as it left *)

\* The last save of every part is handled, or comes.
SavesArrive ==
  \A a \in Actor, t \in Type :
    \/ Newest(a, t) = sent[a][t]
    \/ \E i \in 1 .. Len(Unhandled) :
         IsSave(Unhandled[i], a, t) /\ Unhandled[i].version = sent[a][t]

AskedIn(q, a) ==
  \E i \in 1 .. Len(q) :
    /\ IsQuery(q[i], a)
    /\ \A j \in i + 1 .. Len(q) : \A t \in Kept : ~ IsSave(q[j], a, t)

AnsweredIn(s, a, data) ==
  \E i \in 1 .. Len(s) : s[i].actor = a /\ KeptOf(s[i].data) = KeptOf(data)

\* A character that waits has a load that no save comes after, or its answer.
LoadUnderWay ==
  \A a \in Actor :
    game[a] = "asking" => AskedIn(Unhandled, a) \/ AnsweredIn(answers, a, sent[a])

BackInv == CacheInv /\ SavesArrive /\ LoadUnderWay

LEMMA BackInit ==
  ASSUME CacheAssumption, Init
  PROVE  BackInv
<1>1. \A a \in Actor, t \in Type : Newest(a, t) = 0 /\ sent[a][t] = 0
  BY DEF Init, Newest, Unused, NoData
<1>2. \A a \in Actor : game[a] = "out"
  BY DEF Init
<1> QED  BY <1>1, <1>2, InitInv DEF BackInv, SavesArrive, LoadUnderWay

LEMMA BackQuiet ==
  ASSUME BackInv, Cleans, Unhandled' = Unhandled, UNCHANGED <<sent, answers>>,
         \A a \in Actor : game'[a] = "asking" => game[a] = "asking"
  PROVE  SavesArrive' /\ LoadUnderWay'
<1>1. SavesArrive'
  BY DEF BackInv, SavesArrive, Cleans
<1>2. LoadUnderWay'
  BY DEF BackInv, LoadUnderWay
<1> QED  BY <1>1, <1>2

LEMMA BackReceive ==
  ASSUME BackInv, Receive
  PROVE  SavesArrive' /\ LoadUnderWay'
<1> DEFINE b == Head(answers).actor
<1>1. /\ UNCHANGED <<sent, appended, msgs, cache, db>>
      /\ answers # << >> /\ answers' = Tail(answers)
      /\ game' = IF game[b] = "asking" THEN [game EXCEPT ![b] = "in"] ELSE game
  BY DEF Receive, queueVars, cacheVars
<1>2. game \in [Actor -> {"out", "asking", "in"}] /\ answers \in Seq(Answer)
  BY DEF BackInv, CacheInv, Basics
<1>3. Unhandled' = Unhandled
  BY <1>1 DEF Unhandled
<1>4. Cleans
  BY <1>1, CleansUnchanged
<1>5. SavesArrive'
  BY <1>1, <1>3, <1>4 DEF BackInv, SavesArrive, Cleans
<1>6. /\ Len(answers) \in Nat /\ Len(answers') = Len(answers) - 1 /\ answers[1].actor = b
      /\ \A i \in 1 .. Len(answers) - 1 : answers'[i] = answers[i + 1]
  BY <1>1, <1>2, TailAt
<1> HIDE DEF b
<1>7. ASSUME NEW a \in Actor, game'[a] = "asking", AnsweredIn(answers, a, sent[a])
      PROVE  AnsweredIn(answers', a, sent[a])
  <2>1. a # b
    BY <1>1, <1>2, <1>7
  <2>2. PICK i \in 1 .. Len(answers) :
          answers[i].actor = a /\ KeptOf(answers[i].data) = KeptOf(sent[a])
    BY <1>7 DEF AnsweredIn
  <2>3. i # 1
    BY <1>6, <2>1, <2>2
  <2>4. i - 1 \in 1 .. Len(answers') /\ answers'[i - 1] = answers[i]
    BY <1>6, <2>3
  <2> QED  BY <2>2, <2>4 DEF AnsweredIn
<1>8. \A a \in Actor : game'[a] = "asking" => game[a] = "asking"
  BY <1>1, <1>2
<1>9. LoadUnderWay'
  BY <1>1, <1>3, <1>7, <1>8 DEF BackInv, LoadUnderWay
<1> QED  BY <1>5, <1>9

\* The logic server sends a message.
LEMMA BackAdd ==
  ASSUME BackInv, NEW m \in Message, AddMessage(m), answers' = answers,
         sent' \in [Actor -> [Type -> Version]],
         \A a \in Actor, t \in Type :
           \/ sent'[a][t] = sent[a][t]
           \/ IsSave(m, a, t) /\ m.version = sent'[a][t],
         \A a \in Actor, t \in Type : IsSave(m, a, t) => m.version = sent'[a][t],
         \A a \in Actor : \A t \in Kept : IsSave(m, a, t) => game'[a] # "asking",
         \A a \in Actor : game'[a] = "asking" => game[a] = "asking" \/ IsQuery(m, a)
  PROVE  SavesArrive' /\ LoadUnderWay'
<1> DEFINE q == Unhandled
           r == Append(Unhandled, m)
<1>1. Basics
  BY DEF BackInv, CacheInv
<1>2. q \in Seq(Message) /\ Len(q) \in Nat
  BY <1>1, UnhandledType
<1>3. Len(r) = Len(q) + 1 /\ r[Len(q) + 1] = m /\ \A i \in 1 .. Len(q) : r[i] = q[i]
  BY <1>2, AppendAt
<1>4. Unhandled' = r
  BY <1>1, AppendLast
<1>5. \A a \in Actor, t \in Type : Newest(a, t)' = Newest(a, t)
  BY DEF AddMessage, cacheVars, Newest
<1>6. /\ \A a \in Actor, t \in Type :
           \/ Newest(a, t) = sent[a][t]
           \/ \E i \in 1 .. Len(q) : IsSave(q[i], a, t) /\ q[i].version = sent[a][t]
      /\ \A a \in Actor : game[a] = "asking" => AskedIn(q, a) \/ AnsweredIn(answers, a, sent[a])
  BY DEF BackInv, SavesArrive, LoadUnderWay
<1>7. sent \in [Actor -> [Type -> Version]]
  BY <1>1 DEF Basics
<1> HIDE DEF q, r
<1>8. SavesArrive'
  <2>1. ASSUME NEW a \in Actor, NEW t \in Type
        PROVE  \/ Newest(a, t)' = sent'[a][t]
               \/ \E i \in 1 .. Len(r) : IsSave(r[i], a, t) /\ r[i].version = sent'[a][t]
    <3>1. CASE IsSave(m, a, t)
      <4>1. Len(q) + 1 \in 1 .. Len(r) /\ r[Len(q) + 1] = m
        BY <1>2, <1>3
      <4>2. m.version = sent'[a][t]
        BY <3>1
      <4> QED  BY <3>1, <4>1, <4>2
    <3>2. CASE ~ IsSave(m, a, t)
      <4>1. sent'[a][t] = sent[a][t]
        BY <3>2
      <4>2. CASE Newest(a, t) = sent[a][t]
        BY <1>5, <4>1, <4>2
      <4>3. CASE \E i \in 1 .. Len(q) : IsSave(q[i], a, t) /\ q[i].version = sent[a][t]
        <5>1. PICK i \in 1 .. Len(q) : IsSave(q[i], a, t) /\ q[i].version = sent[a][t]
          BY <4>3
        <5>2. i \in 1 .. Len(r) /\ r[i] = q[i]
          BY <1>2, <1>3
        <5> QED  BY <4>1, <5>1, <5>2
      <4> QED  BY <1>6, <4>2, <4>3
    <3> QED  BY <3>1, <3>2
  <2> QED  BY <1>4, <2>1 DEF SavesArrive
<1>9. LoadUnderWay'
  <2>1. ASSUME NEW a \in Actor, game'[a] = "asking"
        PROVE  AskedIn(r, a) \/ AnsweredIn(answers, a, sent'[a])
    <3>1. \A t \in Kept : ~ IsSave(m, a, t) /\ sent'[a][t] = sent[a][t]
      BY <2>1 DEF Kept
    <3>2. KeptOf(sent'[a]) = KeptOf(sent[a])
      BY <3>1 DEF KeptOf
    <3>3. CASE IsQuery(m, a)
      <4>1. /\ Len(q) + 1 \in 1 .. Len(r) /\ r[Len(q) + 1] = m
            /\ \A j \in (Len(q) + 1) + 1 .. Len(r) : FALSE
        BY <1>2, <1>3
      <4> QED  BY <3>3, <4>1 DEF AskedIn
    <3>4. CASE AskedIn(q, a)
      <4>1. PICK i \in 1 .. Len(q) :
              IsQuery(q[i], a) /\ \A j \in i + 1 .. Len(q) : \A t \in Kept : ~ IsSave(q[j], a, t)
        BY <3>4 DEF AskedIn
      <4>2. i \in 1 .. Len(r) /\ r[i] = q[i]
        BY <1>2, <1>3
      <4>3. ASSUME NEW j \in i + 1 .. Len(r), NEW t \in Kept PROVE ~ IsSave(r[j], a, t)
        <5>1. CASE j \in i + 1 .. Len(q)
          BY <1>2, <1>3, <4>1, <5>1
        <5>2. CASE j = Len(q) + 1
          BY <1>3, <3>1, <5>2
        <5> QED  BY <1>2, <1>3, <5>1, <5>2
      <4> QED  BY <4>1, <4>2, <4>3 DEF AskedIn
    <3>5. CASE AnsweredIn(answers, a, sent[a])
      BY <3>2, <3>5 DEF AnsweredIn
    <3> QED  BY <1>6, <2>1, <3>3, <3>4, <3>5
  <2> QED  BY <1>4, <2>1 DEF LoadUnderWay
<1> QED  BY <1>8, <1>9

\* A message is handled.
LEMMA BackHandle ==
  ASSUME CacheAssumption, BackInv, NEW cmd, Handles(cmd), Handled,
         \A a \in Actor, t \in Type :
           Newest(a, t)' = IF IsSave(Head(msgs), a, t) THEN Head(msgs).version ELSE Newest(a, t),
         \A a \in Actor :
           AnsweredIn(answers, a, sent[a]) => AnsweredIn(answers', a, sent[a]),
         \A a \in Actor :
           IsQuery(Head(msgs), a) /\ (\A t \in Kept : Newest(a, t) = sent[a][t]) =>
             AnsweredIn(answers', a, sent[a])
  PROVE  SavesArrive' /\ LoadUnderWay'
<1> DEFINE q == Unhandled
           r == Tail(Unhandled)
<1>1. Basics
  BY DEF BackInv, CacheInv
<1>2. /\ msgs # << >> /\ msgs' = Tail(msgs) /\ UNCHANGED <<game, sent, appended>>
  BY DEF Handles, Handled, logicVars, queueVars
<1>3. q # << >> /\ Head(msgs) = q[1] /\ Unhandled' = r
  BY <1>1, <1>2, HandleFirst
<1>4. q \in Seq(Message)
  BY <1>1, UnhandledType
<1>5. /\ Len(q) \in Nat /\ Len(q) > 0 /\ Len(r) = Len(q) - 1
      /\ \A i \in 1 .. Len(q) - 1 : r[i] = q[i + 1]
  BY <1>3, <1>4, TailAt
<1>6. /\ \A a \in Actor, t \in Type :
           \/ Newest(a, t) = sent[a][t]
           \/ \E i \in 1 .. Len(q) : IsSave(q[i], a, t) /\ q[i].version = sent[a][t]
      /\ \A a \in Actor : game[a] = "asking" => AskedIn(q, a) \/ AnsweredIn(answers, a, sent[a])
      /\ \A i \in 1 .. Len(q) : \A a \in Actor, t \in Type :
           IsSave(q[i], a, t) => Newest(a, t) < q[i].version /\ q[i].version <= sent[a][t]
  BY DEF BackInv, SavesArrive, LoadUnderWay, CacheInv, Ascending
<1>7. \A a \in Actor, t \in Type : Newest(a, t) \in Nat /\ sent[a][t] \in Nat
  BY <1>1, NewestNumber
<1>8. \A i \in 1 .. Len(q) : q[i].cmd = "save" => q[i].version \in Nat
  BY <1>1, UnhandledType, MessageType, VersionType
<1> HIDE DEF q, r
<1>9. SavesArrive'
  <2>1. ASSUME NEW a \in Actor, NEW t \in Type
        PROVE  \/ Newest(a, t)' = sent[a][t]
               \/ \E i \in 1 .. Len(r) : IsSave(r[i], a, t) /\ r[i].version = sent[a][t]
    <3>1. CASE Newest(a, t) = sent[a][t]
      <4>1. ~ IsSave(q[1], a, t)
        <5>1. SUFFICES ASSUME IsSave(q[1], a, t) PROVE FALSE
          OBVIOUS
        <5>2. 1 \in 1 .. Len(q) /\ q[1].version \in Nat
          BY <1>5, <1>8, <5>1 DEF IsSave
        <5>3. Newest(a, t) < q[1].version /\ q[1].version <= sent[a][t]
          BY <1>6, <5>1, <5>2
        <5> QED  BY <1>7, <3>1, <5>2, <5>3
      <4> QED  BY <1>3, <3>1, <4>1
    <3>2. CASE \E i \in 1 .. Len(q) : IsSave(q[i], a, t) /\ q[i].version = sent[a][t]
      <4>1. PICK i \in 1 .. Len(q) : IsSave(q[i], a, t) /\ q[i].version = sent[a][t]
        BY <3>2
      <4>2. CASE i = 1
        BY <1>3, <4>1, <4>2
      <4>3. CASE i # 1
        <5>1. i - 1 \in 1 .. Len(r) /\ r[i - 1] = q[i]
          BY <1>5, <4>3
        <5> QED  BY <4>1, <5>1
      <4> QED  BY <4>2, <4>3
    <3> QED  BY <1>6, <3>1, <3>2
  <2> QED  BY <1>2, <1>3, <2>1 DEF SavesArrive
<1>10. LoadUnderWay'
  <2>1. ASSUME NEW a \in Actor, game[a] = "asking"
        PROVE  AskedIn(r, a) \/ AnsweredIn(answers', a, sent[a])
    <3>1. CASE AskedIn(q, a)
      <4>1. PICK i \in 1 .. Len(q) :
              IsQuery(q[i], a) /\ \A j \in i + 1 .. Len(q) : \A t \in Kept : ~ IsSave(q[j], a, t)
        BY <3>1 DEF AskedIn
      <4>2. CASE i = 1
        <5>1. \A j \in 1 .. Len(q) : \A t \in Kept : ~ IsSave(q[j], a, t)
          <6>1. SUFFICES ASSUME NEW j \in 1 .. Len(q), NEW t \in Kept PROVE ~ IsSave(q[j], a, t)
            OBVIOUS
          <6>2. CASE j = 1
            BY <4>1, <4>2, <6>2 DEF IsSave, IsQuery
          <6>3. CASE j # 1
            <7>1. j \in i + 1 .. Len(q)
              BY <4>2, <6>3
            <7> QED  BY <4>1, <7>1
          <6> QED  BY <6>2, <6>3
        <5>2. \A t \in Kept : Newest(a, t) = sent[a][t]
          BY <1>6, <5>1 DEF Kept
        <5>3. IsQuery(Head(msgs), a)
          BY <1>3, <4>1, <4>2
        <5> QED  BY <5>2, <5>3
      <4>3. CASE i # 1
        <5>1. i - 1 \in 1 .. Len(r) /\ r[i - 1] = q[i]
          BY <1>5, <4>3
        <5>2. ASSUME NEW j \in (i - 1) + 1 .. Len(r), NEW t \in Kept PROVE ~ IsSave(r[j], a, t)
          <6>1. j + 1 \in i + 1 .. Len(q) /\ r[j] = q[j + 1]
            BY <1>5, <4>3
          <6> QED  BY <4>1, <6>1
        <5> QED  BY <4>1, <5>1, <5>2 DEF AskedIn
      <4> QED  BY <4>2, <4>3
    <3>2. CASE AnsweredIn(answers, a, sent[a])
      BY <3>2
    <3> QED  BY <1>6, <2>1, <3>1, <3>2
  <2> QED  BY <1>2, <1>3, <2>1 DEF LoadUnderWay
<1> QED  BY <1>9, <1>10

LEMMA BackNext ==
  ASSUME CacheAssumption, BackInv, [Next]_vars
  PROVE  BackInv'
<1> SUFFICES SavesArrive' /\ LoadUnderWay'
  BY NextInv DEF BackInv
<1>1. CacheInv /\ Basics
  BY DEF BackInv, CacheInv
<1>2. /\ game \in [Actor -> {"out", "asking", "in"}] /\ sent \in [Actor -> [Type -> Version]]
      /\ answers \in Seq(Answer)
  BY <1>1 DEF Basics
<1>3. ASSUME NEW a \in Actor, Enter(a) PROVE SavesArrive' /\ LoadUnderWay'
  <2> DEFINE m == Query(a)
  <2>1. m \in Message /\ m.cmd = "query" /\ m.actor = a
    BY ReadMsgMade
  <2>2. AddMessage(m) /\ answers' = answers /\ sent' = sent /\ game' = [game EXCEPT ![a] = "asking"]
    BY <1>3 DEF Enter
  <2> HIDE DEF m
  <2>3. /\ \A b \in Actor, t \in Type : ~ IsSave(m, b, t)
        /\ \A b \in Actor : game'[b] = "asking" => game[b] = "asking" \/ IsQuery(m, b)
    BY <1>2, <2>1, <2>2 DEF IsSave, IsQuery
  <2> QED  BY <1>2, <2>1, <2>2, <2>3, BackAdd DEF Kept
<1>4. ASSUME NEW a \in Actor, NEW t \in Type, Change(a, t) PROVE SavesArrive' /\ LoadUnderWay'
  <2> DEFINE v == sent[a][t] + 1
             m == SaveMsg(a, t, v)
  <2>1. /\ answers' = answers /\ game' = game /\ sent[a][t] < MaxSaves[t]
        /\ sent' = [sent EXCEPT ![a][t] = @ + 1]
        /\ AddMessage(SaveMsg(a, t, sent'[a][t]))
        /\ t \in Kept => game[a] = "in"
    BY <1>4 DEF Change, Kept
  <2>2. sent[a][t] \in Nat /\ MaxSaves[t] \in Nat
    BY <1>2, VersionType DEF CacheAssumption
  <2>3. v \in 0 .. MaxSaves[t]
    BY <2>1, <2>2
  <2>4. v \in Version
    BY <2>3 DEF Version
  <2>5. /\ sent' \in [Actor -> [Type -> Version]] /\ sent'[a][t] = v
        /\ \A b \in Actor, u \in Type : b # a \/ u # t => sent'[b][u] = sent[b][u]
    BY <1>2, <2>1, <2>4
  <2>6. AddMessage(m)
    BY <2>1, <2>5
  <2>7. m \in Message /\ m.cmd = "save" /\ m.actor = a /\ m.type = t /\ m.version = v
    BY <2>4, SaveMsgMade
  <2> HIDE DEF m, v
  <2>8. \A b \in Actor, u \in Type : IsSave(m, b, u) <=> b = a /\ u = t
    BY <2>7 DEF IsSave
  <2>9. \A b \in Actor, u \in Type :
          /\ sent'[b][u] = sent[b][u] \/ (IsSave(m, b, u) /\ m.version = sent'[b][u])
          /\ IsSave(m, b, u) => m.version = sent'[b][u]
          /\ IsSave(m, b, u) /\ u \in Kept => game'[b] # "asking"
    BY <2>1, <2>5, <2>7, <2>8
  <2> QED  BY <2>1, <2>5, <2>6, <2>7, <2>9, BackAdd DEF Kept
<1>5. ASSUME NEW a \in Actor, Leave(a) PROVE SavesArrive' /\ LoadUnderWay'
  <2> DEFINE m == Logout(a)
  <2>1. m \in Message /\ m.cmd = "logout" /\ m.actor = a
    BY ReadMsgMade
  <2>2. AddMessage(m) /\ answers' = answers /\ sent' = sent /\ game' = [game EXCEPT ![a] = "out"]
    BY <1>5 DEF Leave
  <2> HIDE DEF m
  <2>3. /\ \A b \in Actor, t \in Type : ~ IsSave(m, b, t)
        /\ \A b \in Actor : game'[b] = "asking" => game[b] = "asking"
    BY <1>2, <2>1, <2>2 DEF IsSave
  <2> QED  BY <1>2, <2>1, <2>2, <2>3, BackAdd DEF Kept
<1>6. CASE Rank
  <2> DEFINE m == SaveRank
  <2>1. m \in Message /\ m.cmd = "rank"
    BY RankMsgMade
  <2>2. AddMessage(m) /\ answers' = answers /\ sent' = sent /\ game' = game
    BY <1>6 DEF Rank, logicVars
  <2> HIDE DEF m
  <2>3. \A b \in Actor, t \in Type : ~ IsSave(m, b, t)
    BY <2>1 DEF IsSave
  <2> QED  BY <1>2, <2>1, <2>2, <2>3, BackAdd DEF Kept
<1>7. CASE Receive
  BY <1>7, BackReceive
<1>8. CASE \/ \E a \in Actor : GiveUp(a) \/ Age(a)
           \/ Stop \/ Flush \/ \E saves \in BOOLEAN : RunCache(saves)
  <2>1. Cleans /\ Unhandled' = Unhandled /\ sent' = sent
    BY <1>1, <1>8, AsideInv
  <2>2. answers' = answers /\ \A a \in Actor : game'[a] = "asking" => game[a] = "asking"
    BY <1>2, <1>8 DEF GiveUp, Age, Stop, Flush, RunCache, logicVars
  <2> QED  BY <2>1, <2>2, BackQuiet
<1>9. CASE SaveData \/ RemoveExpireCache \/ Quit
  BY <1>1, <1>9, SaveInv, BackQuiet
<1>10. CASE HandleSave
  <2>1. /\ answers' = answers /\ Handles("save") /\ Handled
        /\ \A a \in Actor, t \in Type :
             Newest(a, t)' = IF a = Head(msgs).actor /\ t = Head(msgs).type
                             THEN Head(msgs).version ELSE Newest(a, t)
    BY <1>1, <1>10, HandleSaveInv DEF HandleSave
  <2>2. Head(msgs).cmd = "save"
    BY <2>1 DEF Handles
  <2>3. /\ \A a \in Actor, t \in Type :
             IsSave(Head(msgs), a, t) <=> a = Head(msgs).actor /\ t = Head(msgs).type
        /\ \A a \in Actor : ~ IsQuery(Head(msgs), a)
    BY <2>2 DEF IsSave, IsQuery
  <2>4. \A a \in Actor, t \in Type :
          Newest(a, t)' = IF IsSave(Head(msgs), a, t) THEN Head(msgs).version ELSE Newest(a, t)
    BY <2>1, <2>3
  <2> QED  BY <2>1, <2>3, <2>4, BackHandle
<1>11. CASE HandleLogout \/ HandleRank
  <2>1. PICK cmd \in {"logout", "rank"} : Handles(cmd) /\ Handled /\ answers' = answers
    BY <1>11 DEF HandleLogout, HandleRank
  <2>2. Head(msgs).cmd = cmd
    BY <2>1 DEF Handles
  <2>3. /\ \A a \in Actor, t \in Type : ~ IsSave(Head(msgs), a, t)
        /\ \A a \in Actor : ~ IsQuery(Head(msgs), a)
    BY <2>1, <2>2 DEF IsSave, IsQuery
  <2>4. \A a \in Actor, t \in Type :
          Newest(a, t)' = IF IsSave(Head(msgs), a, t) THEN Head(msgs).version ELSE Newest(a, t)
    BY <1>1, <1>11, <2>3, HandleOtherInv DEF Cleans
  <2> QED  BY <2>1, <2>3, <2>4, BackHandle
<1>12. CASE HandleQuery
  <2>1. PICK b \in Actor :
          /\ Head(msgs).cmd = "query" /\ Head(msgs).actor = b
          /\ [actor |-> b, data |-> db[b]] \in Answer
          /\ answers' = Append(answers, [actor |-> b, data |-> db[b]])
          /\ \A t \in Kept : db[b][t] = Newest(b, t)
    BY <1>1, <1>12, LoadFindsNewest
  <2> DEFINE x == [actor |-> b, data |-> db[b]]
  <2>2. /\ Len(answers) \in Nat /\ Len(answers') = Len(answers) + 1
        /\ answers'[Len(answers) + 1] = x
        /\ \A i \in 1 .. Len(answers) : answers'[i] = answers[i]
    BY <1>2, <2>1, AppendAt
  <2>3. ASSUME NEW a \in Actor, AnsweredIn(answers, a, sent[a]) PROVE AnsweredIn(answers', a, sent[a])
    <3>1. PICK i \in 1 .. Len(answers) :
            answers[i].actor = a /\ KeptOf(answers[i].data) = KeptOf(sent[a])
      BY <2>3 DEF AnsweredIn
    <3>2. i \in 1 .. Len(answers') /\ answers'[i] = answers[i]
      BY <2>2
    <3> QED  BY <3>1, <3>2 DEF AnsweredIn
  <2>4. ASSUME NEW a \in Actor, IsQuery(Head(msgs), a), \A t \in Kept : Newest(a, t) = sent[a][t]
        PROVE  AnsweredIn(answers', a, sent[a])
    <3>1. a = b
      BY <2>1, <2>4 DEF IsQuery
    <3>2. KeptOf(db[b]) = KeptOf(sent[a])
      BY <2>1, <2>4, <3>1 DEF KeptOf
    <3>3. Len(answers) + 1 \in 1 .. Len(answers')
      BY <2>2
    <3> QED  BY <2>2, <3>1, <3>2, <3>3 DEF AnsweredIn
  <2>5. Handles("query") /\ Handled
    BY <1>12 DEF HandleQuery
  <2>6. \A a \in Actor, t \in Type : ~ IsSave(Head(msgs), a, t)
    BY <2>1 DEF IsSave
  <2>7. \A a \in Actor, t \in Type :
          Newest(a, t)' = IF IsSave(Head(msgs), a, t) THEN Head(msgs).version ELSE Newest(a, t)
    BY <1>1, <1>12, <2>6, HandleOtherInv DEF Cleans
  <2> QED  BY <2>3, <2>4, <2>5, <2>7, BackHandle
<1>13. CASE UNCHANGED vars
  <2>1. UNCHANGED <<game, sent, appended, msgs, cache, db, answers>>
    BY <1>13 DEF vars, logicVars, queueVars, cacheVars
  <2>2. Unhandled' = Unhandled /\ Cleans
    BY <2>1, CleansUnchanged DEF Unhandled
  <2> QED  BY <2>1, <2>2, BackQuiet
<1> QED  BY <1>3, <1>4, <1>5, <1>6, <1>7, <1>8, <1>9, <1>10, <1>11, <1>12, <1>13
         DEF Next, Environment, Handler, HandleMessage

\* A load that is the only one of its character under way is not to be waited for.
LEMMA OnlyLoadAnswers ==
  ASSUME BackInv, NEW a \in Actor, game[a] = "asking", OnlyLoad(a)
  PROVE  KeptOf(Head(answers).data) = KeptOf(sent[a])
<1>1. msgs \in Seq(Message) /\ appended \in Seq(Message) /\ answers \in Seq(Answer)
  BY DEF BackInv, CacheInv, Basics
<1>2. \A m \in Message : IsQuery(m, a) => m = Query(a)
  BY DEF Message, SaveMsg, Query, Logout, SaveRank, IsQuery
<1>3. ~ AskedIn(Unhandled, a)
  <2>1. \A i \in 1 .. Len(msgs) : msgs[i] \in Message /\ msgs[i] # Query(a)
    BY <1>1 DEF OnlyLoad
  <2>2. \A i \in 1 .. Len(appended) : appended[i] \in Message /\ appended[i] # Query(a)
    BY <1>1 DEF OnlyLoad
  <2>3. ASSUME NEW i \in 1 .. Len(Unhandled) PROVE ~ IsQuery(Unhandled[i], a)
    <3>1. /\ Len(msgs) \in Nat /\ Len(appended) \in Nat /\ Len(Unhandled) = Len(msgs) + Len(appended)
          /\ i \in 1 .. Len(msgs) + Len(appended)
          /\ Unhandled[i] = IF i <= Len(msgs) THEN msgs[i] ELSE appended[i - Len(msgs)]
      BY <1>1, <2>3, ConcatProperties DEF Unhandled
    <3>2. CASE i <= Len(msgs)
      <4>1. i \in 1 .. Len(msgs) /\ Unhandled[i] = msgs[i]
        BY <3>1, <3>2
      <4> QED  BY <1>2, <2>1, <4>1
    <3>3. CASE ~ i <= Len(msgs)
      <4>1. i - Len(msgs) \in 1 .. Len(appended) /\ Unhandled[i] = appended[i - Len(msgs)]
        BY <3>1, <3>3
      <4> QED  BY <1>2, <2>2, <4>1
    <3> QED  BY <3>2, <3>3
  <2> QED  BY <2>3 DEF AskedIn
<1>4. AnsweredIn(answers, a, sent[a])
  BY <1>3 DEF BackInv, LoadUnderWay
<1>5. PICK i \in 1 .. Len(answers) : answers[i].actor = a /\ KeptOf(answers[i].data) = KeptOf(sent[a])
  BY <1>4 DEF AnsweredIn
<1>6. i \in DOMAIN answers
  BY <1>1, <1>5
<1>7. i = 1
  BY <1>5, <1>6 DEF OnlyLoad
<1>8. Head(answers) = answers[1]
  BY <1>1, <1>5, <1>7
<1> QED  BY <1>5, <1>7, <1>8

\* What a character comes back with is what it left with, however long the cache holds
\* it back, for any number of characters, parts, saves and messages.
THEOREM CharactersComeBack == Spec => ComesBackAsItLeft
<1>1. Init => BackInv
  BY CacheAssumption, BackInit
<1>2. BackInv /\ [Next]_vars => BackInv'
  BY CacheAssumption, BackNext
<1>3. BackInv /\ [Next]_vars =>
        [\A a \in Actor : game[a] = "asking" /\ game'[a] = "in" /\ OnlyLoad(a) =>
           KeptOf(Head(answers).data) = KeptOf(sent[a])]_vars
  BY OnlyLoadAnswers
<1> QED  BY <1>1, <1>2, <1>3, PTL DEF Spec, ComesBackAsItLeft

-----------------------------------------------------------------------------
(* The list and the iterator *)

\* A character is on the list when it has an entry, and only once; the iterator stands on
\* a node of the list or on none.
OnList(a) == \E i \in DOMAIN list : list[i] = a
Listed ==
  /\ list \in Seq(Actor) /\ IsInjective(list)
  /\ \A a \in Actor : cache[a] # Unused => OnList(a)
  /\ cursor = NoActor \/ OnList(cursor)

Flags ==
  /\ hasReadOp \in BOOLEAN /\ stop \in BOOLEAN
  /\ pc \in {"check", "handle", "save", "expire", "ended"}

LEMMA MaxIsGreatest ==
  ASSUME NEW n \in Nat, NEW S \in SUBSET (1 .. n), S # {}
  PROVE  Max(S) \in S /\ \A y \in S : y <= Max(S)
<1> DEFINE from(x) == {y \in S : x <= y}
           T == {from(x) : x \in S}
<1>1. IsFiniteSet(S)
  <2>1. IsFiniteSet(1 .. n)
    BY FS_Interval
  <2> QED  BY <2>1, FS_Subset
<1>2. IsWellFoundedOn(StrictSubsetOrdering(S), FiniteSubsetsOf(S))
  BY FS_StrictSubsetOrderingWellFounded
<1>3. T \subseteq FiniteSubsetsOf(S)
  <2> SUFFICES ASSUME NEW x \in S PROVE from(x) \in FiniteSubsetsOf(S)
    OBVIOUS
  <2> QED  BY <1>1, FS_Subset DEF FiniteSubsetsOf
<1>4. PICK U \in T : \A V \in T : ~ (<<V, U>> \in StrictSubsetOrdering(S))
  <2>1. T # {}
    OBVIOUS
  <2> HIDE DEF T
  <2>2. \E U \in T : \A V \in T : ~ (<<V, U>> \in StrictSubsetOrdering(S))
    BY <1>2, <1>3, <2>1, WFMin
  <2> QED  BY <2>2
<1>5. PICK x \in S : U = from(x)
  OBVIOUS
<1>6. \A y \in S : y <= x
  <2> SUFFICES ASSUME NEW y \in S, x < y PROVE FALSE
    OBVIOUS
  <2>1. from(y) \in T /\ from(y) \in SUBSET S /\ from(x) \in SUBSET S
    OBVIOUS
  <2>2. from(y) \subseteq from(x) /\ x \in from(x) /\ x \notin from(y)
    <3>1. x \in Int /\ y \in Int /\ ~ (y <= x) /\ x <= x
      OBVIOUS
    <3>2. \A z \in S : y <= z => x <= z
      OBVIOUS
    <3> QED  BY <3>1, <3>2
  <2>3. <<from(y), from(x)>> \in StrictSubsetOrdering(S)
    BY <2>1, <2>2 DEF StrictSubsetOrdering
  <2> QED  BY <1>4, <1>5, <2>1, <2>3
<1> QED  BY <1>6 DEF Max

\* Where the iterator stands.
LEMMA PositionType ==
  ASSUME Listed
  PROVE  /\ Position \in 0 .. Len(list) /\ Len(list) \in Nat /\ DOMAIN list = 1 .. Len(list)
         /\ ~ AtEnd => NextActor \in Actor /\ OnList(NextActor)
<1>1. Len(list) \in Nat /\ DOMAIN list = 1 .. Len(list) /\ list \in [1 .. Len(list) -> Actor]
  BY DEF Listed
<1>2. Position \in 0 .. Len(list)
  <2>1. CASE cursor = NoActor
    BY <1>1, <2>1 DEF Position
  <2>2. CASE cursor # NoActor
    <3>1. \E i \in DOMAIN list : list[i] = cursor
      BY <2>2 DEF Listed, OnList
    <3> QED  BY <1>1, <2>2, <3>1 DEF Position
  <2> QED  BY <2>1, <2>2
<1>3. ASSUME ~ AtEnd PROVE NextActor \in Actor /\ OnList(NextActor)
  <2>1. Position + 1 \in 1 .. Len(list)
    <3>1. Position # Len(list)
      BY <1>3 DEF AtEnd
    <3>2. PICK n \in Nat : n = Len(list)
      BY <1>1
    <3>3. PICK k \in 0 .. n : k = Position
      BY <1>2, <3>2
    <3>4. k # n
      BY <3>1, <3>2, <3>3
    <3>5. k + 1 \in 1 .. n
      BY <3>4
    <3> QED  BY <3>2, <3>3, <3>5
  <2> QED  BY <1>1, <2>1 DEF NextActor, OnList
<1> QED  BY <1>1, <1>2, <1>3

\* The list is left as it is, and what gets an entry is on it.
LEMMA ListStays ==
  ASSUME Listed, list' = list, cursor' = cursor \/ cursor' = NoActor \/ OnList(cursor'),
         \A a \in Actor : cache'[a] # Unused => cache[a] # Unused \/ OnList(a)
  PROVE  Listed'
<1>1. \A a \in Actor : OnList(a)' <=> OnList(a)
  BY DEF OnList
<1>2. \A a \in Actor : cache'[a] # Unused => OnList(a)'
  BY <1>1 DEF Listed
<1>3. cursor' = NoActor \/ (\E i \in DOMAIN list' : list'[i] = cursor')
  BY DEF Listed, OnList
<1> QED  BY <1>2, <1>3 DEF Listed, OnList

LEMMA CleanUnused == [Unused EXCEPT !.dirty = {}] = Unused
<1> DEFINE R == [version : {NoData}, dirty : {{}}, due : BOOLEAN, expired : BOOLEAN]
           x == [Unused EXCEPT !.dirty = {}]
<1>1. Unused \in R
  BY DEF Unused
<1>2. x \in R /\ x.due = Unused.due /\ x.expired = Unused.expired
  BY <1>1
<1>3. ASSUME NEW y \in R, NEW z \in R, y.due = z.due, y.expired = z.expired PROVE y = z
  <2>1. y.version = z.version /\ y.dirty = z.dirty
    OBVIOUS
  <2> QED  BY <1>3, <2>1
<1> HIDE DEF R, x
<1> QED  BY <1>1, <1>2, <1>3 DEF x

LEMMA SaveNowLists ==
  ASSUME Basics, NEW actors, SaveNow(actors)
  PROVE  \A a \in Actor : cache'[a] # Unused => cache[a] # Unused
<1> SUFFICES ASSUME NEW a \in Actor, cache[a] = Unused PROVE cache'[a] = Unused
  OBVIOUS
<1>1. cache'[a] = IF a \in actors THEN [cache[a] EXCEPT !.dirty = {}] ELSE cache[a]
  BY DEF SaveNow
<1>2. [Unused EXCEPT !.dirty = {}] = Unused
  BY CleanUnused
<1> QED  BY <1>1, <1>2

\* An entry is made, and put at the end of the list.
LEMMA CachedLists ==
  ASSUME Basics, Listed, NEW m, m.actor \in Actor, Cached(m)
  PROVE  Listed'
<1> DEFINE b == m.actor
           new == \A i \in DOMAIN list : list[i] # b
<1>1. /\ cursor' = cursor /\ list' = IF new THEN Append(list, b) ELSE list
      /\ \A a \in Actor \ {b} : cache'[a] = cache[a]
  BY DEF Cached, Basics
<1>2. CASE ~ new
  <2>1. OnList(b)
    BY <1>2 DEF OnList
  <2> HIDE DEF b
  <2> QED  BY <1>1, <1>2, <2>1, ListStays
<1>3. CASE new
  <2>1. list \in Seq(Actor) /\ IsInjective(list) /\ list' = Append(list, b)
    BY <1>1, <1>3 DEF Listed
  <2> HIDE DEF b
  <2>2. /\ list' \in Seq(Actor) /\ Len(list) \in Nat /\ Len(list') = Len(list) + 1
        /\ list'[Len(list) + 1] = b /\ \A i \in 1 .. Len(list) : list'[i] = list[i]
        /\ DOMAIN list = 1 .. Len(list) /\ DOMAIN list' = 1 .. Len(list')
    BY <2>1 DEF b
  <2>3. IsInjective(list')
    <3> SUFFICES ASSUME NEW i \in DOMAIN list', NEW j \in DOMAIN list', list'[i] = list'[j] PROVE i = j
      BY DEF IsInjective
    <3>1. \A x \in DOMAIN list : list[x] # b
      BY <1>3 DEF b
    <3>2. \A x, y \in DOMAIN list : list[x] = list[y] => x = y
      BY <2>1 DEF IsInjective
    <3> QED  BY <2>2, <3>1, <3>2
  <2>4. \A a : OnList(a) => OnList(a)'
    BY <2>2 DEF OnList
  <2>5. OnList(b)'
    <3>1. Len(list) + 1 \in DOMAIN list'
      BY <2>2
    <3> QED  BY <2>2, <3>1 DEF OnList
  <2>6. \A a \in Actor : cache'[a] # Unused => OnList(a)'
    BY <1>1, <2>4, <2>5 DEF Listed
  <2>7. cursor' = NoActor \/ OnList(cursor)'
    BY <1>1, <2>4 DEF Listed
  <2> QED  BY <2>2, <2>3, <2>6, <2>7 DEF Listed, OnList
<1> QED  BY <1>2, <1>3

\* Removing expired entries: the iterator goes back to a node that stays.
LEMMA RemoveLists ==
  ASSUME Basics, Listed, RemoveExpireCache
  PROVE  Listed'
<1>1. list \in Seq(Actor) /\ Len(list) \in Nat /\ DOMAIN list = 1 .. Len(list)
      /\ \A i \in DOMAIN list : list[i] \in Actor
  BY DEF Listed
<1>2. Stays \subseteq 1 .. Len(list)
  BY <1>1 DEF Stays
<1>3. PICK f \in InOrderOf(Stays) : list' = [i \in DOMAIN f |-> list[f[i]]]
  BY DEF RemoveExpireCache, OnlyStays
<1>4. IsFiniteSet(Stays)
  <2>1. IsFiniteSet(1 .. Len(list))
    BY <1>1, FS_Interval
  <2> QED  BY <1>2, <2>1, FS_Subset
<1>5. PICK n \in Nat : n = Cardinality(Stays)
  BY <1>4, FS_CardinalityType
<1>6. f \in [1 .. n -> Stays] /\ DOMAIN f = 1 .. n /\ \A i, j \in 1 .. n : i < j => f[i] < f[j]
  BY <1>3, <1>5 DEF InOrderOf
<1>7. \A i, j \in 1 .. n : f[i] = f[j] => i = j
  <2> SUFFICES ASSUME NEW i \in 1 .. n, NEW j \in 1 .. n, f[i] = f[j], i # j PROVE FALSE
    OBVIOUS
  <2>1. f[i] \in Nat /\ (f[i] < f[j] \/ f[j] < f[i])
    <3>1. i < j \/ j < i
      OBVIOUS
    <3>2. f[i] \in 1 .. Len(list)
      BY <1>2, <1>6
    <3> QED  BY <1>6, <3>1, <3>2
  <2> QED  BY <2>1
<1>8. \A x \in Stays : \E i \in 1 .. n : f[i] = x
  <2>1. f \in Injection(1 .. n, Stays)
    BY <1>6, <1>7 DEF Injection, IsInjective
  <2>2. Cardinality(1 .. n) = n
    BY FS_Interval
  <2>3. f \in Surjection(1 .. n, Stays)
    BY <1>4, <1>5, <2>1, <2>2, FS_Injection
  <2> QED  BY <2>3 DEF Surjection
<1>9. /\ list' \in Seq(Actor) /\ DOMAIN list' = 1 .. n
      /\ \A i \in 1 .. n : list'[i] = list[f[i]] /\ f[i] \in DOMAIN list
  <2>1. \A i \in 1 .. n : f[i] \in DOMAIN list /\ list[f[i]] \in Actor
    BY <1>1, <1>2, <1>6
  <2>2. list' = [i \in 1 .. n |-> list[f[i]]]
    BY <1>3, <1>6
  <2>3. list' \in [1 .. n -> Actor]
    BY <2>1, <2>2
  <2> QED  BY <2>1, <2>2, <2>3
<1>10. IsInjective(list')
  BY <1>7, <1>9 DEF IsInjective, Listed
<1>11. \A x \in Stays : \E i \in DOMAIN list' : list'[i] = list[x]
  BY <1>8, <1>9
<1>12. \A a \in Actor : cache'[a] # Unused => OnList(a)'
  <2> SUFFICES ASSUME NEW a \in Actor, cache'[a] # Unused PROVE OnList(a)'
    OBVIOUS
  <2>1. cache[a] # Unused /\ ~ cache[a].expired
    BY DEF RemoveExpireCache
  <2>2. PICK i \in DOMAIN list : list[i] = a
    BY <2>1 DEF Listed, OnList
  <2>3. i \in Stays
    BY <2>1, <2>2 DEF Stays
  <2> QED  BY <1>11, <2>2, <2>3 DEF OnList
<1>13. cursor' = NoActor \/ OnList(cursor)'
  <2> DEFINE before == {i \in Stays : i <= Position}
  <2>1. cursor' = IF before = {} THEN NoActor ELSE list[Max(before)]
    BY DEF RemoveExpireCache
  <2>2. ASSUME before # {} PROVE Max(before) \in Stays
    <3>1. before \in SUBSET (1 .. Len(list)) /\ before \subseteq Stays
      BY <1>2
    <3> HIDE DEF before
    <3> QED  BY <1>1, <2>2, <3>1, MaxIsGreatest
  <2> HIDE DEF before
  <2>3. ASSUME before # {} PROVE OnList(cursor)'
    <3>1. \E i \in DOMAIN list' : list'[i] = list[Max(before)]
      BY <1>11, <2>2, <2>3
    <3>2. cursor' = list[Max(before)]
      BY <2>1, <2>3
    <3> QED  BY <3>1, <3>2 DEF OnList
  <2> QED  BY <2>1, <2>3
<1> QED  BY <1>9, <1>10, <1>12, <1>13 DEF Listed, OnList

LEMMA NextListed ==
  ASSUME CacheAssumption, Basics, Listed, [Next]_vars
  PROVE  Listed'
<1>1. ASSUME UNCHANGED cacheVars PROVE Listed'
  BY <1>1, ListStays DEF cacheVars
<1>2. CASE Environment
  BY <1>1, <1>2 DEF Environment, Enter, GiveUp, Leave, Change, Rank, Receive, Stop, AddMessage
<1>3. CASE \E a \in Actor : Age(a)
  <2>1. PICK a \in Actor : Age(a)
    BY <1>3
  <2>2. OnList(a) /\ list' = list /\ cursor' = cursor /\ cache' = [cache EXCEPT ![a].due = TRUE]
    BY <2>1 DEF Age, OnList
  <2>3. \A b \in Actor : b # a => cache'[b] = cache[b]
    BY <2>2 DEF Basics
  <2> QED  BY <2>2, <2>3, ListStays
<1>4. CASE Flush \/ HandleQuery \/ \E saves \in BOOLEAN : RunCache(saves)
  BY <1>1, <1>4 DEF Flush, HandleQuery, RunCache
<1>5. CASE HandleSave
  <2>1. Handles("save") /\ (UNCHANGED <<cache, list, cursor>> \/ Cached(Head(msgs)))
    BY <1>5 DEF HandleSave
  <2>2. Head(msgs).actor \in Actor
    BY <2>1, HeadType, MessageType
  <2>3. CASE UNCHANGED <<cache, list, cursor>>
    BY <2>3, ListStays
  <2> QED  BY <2>1, <2>2, <2>3, CachedLists
<1>6. CASE HandleLogout
  <2>1. SaveNow({Head(msgs).actor}) /\ list' = list /\ cursor' = cursor
    BY <1>6 DEF HandleLogout
  <2> QED  BY <2>1, SaveNowLists, ListStays
<1>7. CASE HandleRank \/ Quit
  <2>1. SaveNow({list[i] : i \in Position + 1 .. Len(list)}) /\ list' = list /\ cursor' = NoActor
    BY <1>7 DEF HandleRank, Quit, SaveAll
  <2> QED  BY <2>1, SaveNowLists, ListStays
<1>8. CASE SaveData
  <2>1. list' = list
    BY <1>8 DEF SaveData
  <2>2. CASE AtEnd
    <3>1. cursor' = NoActor /\ cache' = cache
      BY <1>8, <2>2 DEF SaveData
    <3> QED  BY <2>1, <3>1, ListStays
  <2>3. CASE ~ AtEnd
    <3>1. PICK a \in Actor : a = NextActor /\ OnList(a)
      BY <2>3, PositionType
    <3>2. cursor' = a /\ SaveOne(a)
      BY <1>8, <2>3, <3>1 DEF SaveData
    <3>3. \A b \in Actor : b # a => cache'[b] = cache[b]
      BY <3>2 DEF SaveOne, Basics
    <3> QED  BY <2>1, <3>1, <3>2, <3>3, ListStays
  <2> QED  BY <2>2, <2>3
<1>9. CASE RemoveExpireCache
  BY <1>9, RemoveLists
<1>10. CASE UNCHANGED vars
  BY <1>1, <1>10 DEF vars
<1> QED  BY <1>2, <1>3, <1>4, <1>5, <1>6, <1>7, <1>8, <1>9, <1>10 DEF Next, Handler, HandleMessage

LEMMA NextFlags ==
  ASSUME Flags, [Next]_vars
  PROVE  Flags'
<1>1. CASE Environment
  BY <1>1 DEF Flags, Environment, Enter, GiveUp, Leave, Change, Rank, Receive, Stop, AddMessage, queueVars,
              SaveMsg, Query, Logout, SaveRank, IsReadCmd
<1>2. CASE Handler
  BY <1>2 DEF Flags, Handler, Flush, HandleMessage, HandleSave, HandleQuery, HandleLogout, HandleRank, Handled,
              RunCache, SaveData, RemoveExpireCache, Quit, queueVars
<1>3. CASE \E a \in Actor : Age(a)
  BY <1>3 DEF Flags, Age, queueVars
<1>4. CASE UNCHANGED vars
  BY <1>4 DEF Flags, vars, queueVars
<1> QED  BY <1>1, <1>2, <1>3, <1>4 DEF Next

\* The list holds the characters that have an entry, each once, and the iterator stands on
\* a node that is there, although nodes are removed and added between two parts of a walk
\* (DBDataCache.cpp:370-396, 417-435, 527-548).
THEOREM CacheTyped == Spec => []TypeOK
<1> DEFINE I == CacheInv /\ Listed /\ Flags
<1>1. Init => I
  <2> SUFFICES ASSUME Init PROVE I
    OBVIOUS
  <2>1. CacheInv
    BY CacheAssumption, InitInv
  <2>2. Flags
    BY DEF Init, Flags
  <2>3. list = << >> /\ cursor = NoActor /\ \A a \in Actor : cache[a] = Unused
    BY DEF Init
  <2>4. Listed
    BY <2>3 DEF Listed, IsInjective
  <2> QED  BY <2>1, <2>2, <2>4
<1>2. I /\ [Next]_vars => I'
  BY CacheAssumption, NextInv, NextListed, NextFlags DEF CacheInv
<1>3. I => TypeOK
  BY DEF CacheInv, Basics, Listed, Flags, OnList, TypeOK
<1> QED  BY <1>1, <1>2, <1>3, PTL DEF Spec
=============================================================================
