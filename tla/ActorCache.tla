----------------------------- MODULE ActorCache -----------------------------
(***************************************************************************)
(* The write-back cache of the DB server, one for each connection of a     *)
(* logic server: CDBDataClientHandler and CDBDataCache of server/DBServer. *)
(*                                                                         *)
(*   data thread     appends the messages it receives, and stops the       *)
(*                   handler when the connection is lost                   *)
(*   handler thread  handles the messages, and every five seconds writes   *)
(*                   what is dirty and cooled down; when a load or a       *)
(*                   logout waits, it may pause in the middle of the list  *)
(*                                                                         *)
(* Data is a version number, counted for each part of each character by    *)
(* the logic server.  The twenty-odd parts fall into those that are cached *)
(* and those that are written at once (Direct); some cached ones are saved *)
(* for characters that are not in the game, too (Late: the guild data).    *)
(***************************************************************************)
EXTENDS Integers, Sequences, FiniteSets, SequencesExt

CONSTANTS
  Actor, NoActor,  \* characters
  Type,            \* the parts a character's data is saved in
  Direct,          \* the parts that are not cached
  Late,            \* the parts saved for characters that are not in the game
  Parts,           \* the parts that change of each character
  MaxSaves,        \* bound: how often each part is saved
  MaxQueue,        \* bound: how long the queues get
  SavesTakeLong    \* may a periodic save take longer than two seconds?

ASSUME CacheAssumption ==
  /\ NoActor \notin Actor
  /\ Direct \subseteq Type /\ Late \subseteq Type
  /\ Parts \in [Actor -> SUBSET Type]
  /\ MaxSaves \in [Type -> Nat] /\ MaxQueue \in Nat \ {0}
  /\ SavesTakeLong \in BOOLEAN

VARIABLES
  game,       \* logic server: is the character in the game?
  sent,       \* logic server: the version of each part sent last
  appended,   \* the append list of m_sMsgList
  hasReadOp,  \* the read flag
  stop,       \* m_lStop
  msgs,       \* the list of m_sMsgList being handled
  pc,         \* where the handler thread is
  cache,      \* CActorCacheData of each character, Unused when there is none
  list,       \* m_list, which m_sACDIdxTbl is the index of
  cursor,     \* m_listIter: the character whose node it stands on
  db,         \* the tables of the database
  answers     \* answers to loads, on their way to the logic server

logicVars == <<game, sent>>
queueVars == <<appended, hasReadOp, stop>>
cacheVars == <<cache, list, cursor, db>>
vars == <<logicVars, queueVars, cacheVars, msgs, pc, answers>>

-----------------------------------------------------------------------------
Version == UNION {0 .. MaxSaves[t] : t \in Type}
NoData == [t \in Type |-> 0]

\* due: m_nNextSaveTick is over, for fifteen minutes when the entry is clean.
Unused == [version |-> NoData, dirty |-> {}, due |-> FALSE, expired |-> FALSE]

SaveMsg(a, t, v) == [cmd |-> "save", actor |-> a, type |-> t, version |-> v]
Query(a) == [cmd |-> "query", actor |-> a]
Logout(a) == [cmd |-> "logout", actor |-> a]
SaveRank == [cmd |-> "rank"]

Message == {SaveMsg(a, t, v) : a \in Actor, t \in Type, v \in Version}
             \cup {Query(a) : a \in Actor} \cup {Logout(a) : a \in Actor} \cup {SaveRank}

IsReadCmd(m) == m.cmd \in {"query", "logout"}

Init ==
  /\ game = [a \in Actor |-> "out"]
  /\ sent = [a \in Actor |-> NoData]
  /\ appended = << >>
  /\ hasReadOp = FALSE
  /\ stop = FALSE
  /\ msgs = << >>
  /\ pc = "check"
  /\ cache = [a \in Actor |-> Unused]
  /\ list = << >>
  /\ cursor = NoActor
  /\ db = [a \in Actor |-> NoData]
  /\ answers = << >>

-----------------------------------------------------------------------------
(* The logic server sends, and the data thread appends: AddMessage *)

\* The flag is set before the message is appended, and the handler may clear it
\* in between; the same comes of a message appended while others are handled.
AddMessage(m) ==
  /\ ~ stop
  /\ Len(appended) < MaxQueue
  /\ appended' = Append(appended, m)
  /\ hasReadOp' = (hasReadOp \/ IsReadCmd(m))
  /\ UNCHANGED <<stop, cacheVars, msgs, pc>>

\* CActor::Onlogin: the character is to be loaded. One that has nothing but late
\* parts stays away.  The length of answers is a bound of the model.
Enter(a) ==
  /\ game[a] = "out"
  /\ Parts[a] \ Late # {}
  /\ Len(answers) < MaxQueue
  /\ AddMessage(Query(a))
  /\ game' = [game EXCEPT ![a] = "asking"]
  /\ UNCHANGED <<sent, answers>>

\* CActor::CloseActor before the data came: nothing is saved, nothing is sent.
GiveUp(a) ==
  /\ game[a] = "asking"
  /\ game' = [game EXCEPT ![a] = "out"]
  /\ UNCHANGED <<sent, queueVars, cacheVars, msgs, pc, answers>>

\* A part of a character is saved: in the game, by SaveDb; the guild data also when
\* the character is not there.
Change(a, t) ==
  /\ t \in Parts[a]
  /\ game[a] = "in" \/ t \in Late
  /\ sent[a][t] < MaxSaves[t]
  /\ sent' = [sent EXCEPT ![a][t] = @ + 1]
  /\ AddMessage(SaveMsg(a, t, sent'[a][t]))
  /\ UNCHANGED <<game, answers>>

\* SaveDb sends dcLogout after everything else.
Leave(a) ==
  /\ game[a] = "in"
  /\ AddMessage(Logout(a))
  /\ game' = [game EXCEPT ![a] = "out"]
  /\ UNCHANGED <<sent, answers>>

\* RankingMgr saves the ranks now and then.
Rank ==
  /\ AddMessage(SaveRank)
  /\ UNCHANGED <<logicVars, answers>>

\* OnDbReturnActor: the answer is for the character, whoever asked; one that is
\* loaded already, or gone, ignores it.
Receive ==
  LET a == Head(answers).actor
  IN  /\ answers # << >>
      /\ answers' = Tail(answers)
      /\ game' = IF game[a] = "asking" THEN [game EXCEPT ![a] = "in"] ELSE game
      /\ UNCHANGED <<sent, queueVars, cacheVars, msgs, pc>>

\* The connection is lost: Disconnected stops the handler, and takes no more.
Stop ==
  /\ ~ stop
  /\ stop' = TRUE
  /\ UNCHANGED <<logicVars, appended, hasReadOp, cacheVars, msgs, pc, answers>>

Environment ==
  \/ \E a \in Actor : \/ Enter(a) \/ GiveUp(a) \/ Leave(a)
                      \/ \E t \in Type : Change(a, t)
  \/ Rank \/ Receive \/ Stop

-----------------------------------------------------------------------------
(* The handler thread writes *)

\* What the tables hold of a character once its dirty parts are written.
Written(a) == [t \in Type |-> IF t \in cache[a].dirty THEN cache[a].version[t] ELSE db[a][t]]

\* SaveActorDataImpl without the cooldown, for each of these characters: a clean one
\* is left alone.
SaveNow(actors) ==
  /\ db' = [a \in Actor |-> IF a \in actors THEN Written(a) ELSE db[a]]
  /\ cache' = [a \in Actor |-> IF a \in actors THEN [cache[a] EXCEPT !.dirty = {}] ELSE cache[a]]

\* The iterator starts over when it stands on no node.
Position == IF cursor = NoActor THEN 0 ELSE CHOOSE i \in DOMAIN list : list[i] = cursor
AtEnd == Position = Len(list)
NextActor == list[Position + 1]

\* SaveAllActorDataImmediately goes on where the iterator was left, to the end.
SaveAll ==
  /\ SaveNow({list[i] : i \in Position + 1 .. Len(list)})
  /\ cursor' = NoActor
  /\ UNCHANGED list

-----------------------------------------------------------------------------
(* The handler thread: RunOne *)

Flush ==
  /\ pc = "check"
  /\ ~ stop
  /\ msgs' = appended
  /\ appended' = << >>
  /\ pc' = "handle"
  /\ UNCHANGED <<logicVars, hasReadOp, stop, cacheVars, answers>>

Handles(cmd) == pc = "handle" /\ msgs # << >> /\ Head(msgs).cmd = cmd

Handled == msgs' = Tail(msgs) /\ UNCHANGED <<logicVars, queueVars, pc>>

\* CacheData: the entry is made when there is none; the newest packet stays.
Cached(m) ==
  LET a == m.actor
      new == \A i \in DOMAIN list : list[i] # a
  IN  /\ cache' = [cache EXCEPT ![a].version[m.type] = m.version,
                                ![a].dirty = @ \cup {m.type}]
      /\ list' = IF new THEN Append(list, a) ELSE list
      /\ UNCHANGED <<cursor, db>>

HandleSave ==
  LET m == Head(msgs)
  IN  /\ Handles("save")
      /\ IF m.type \in Direct
         THEN /\ db' = [db EXCEPT ![m.actor][m.type] = m.version]
              /\ UNCHANGED <<cache, list, cursor>>
         ELSE Cached(m)
      /\ Handled
      /\ UNCHANGED answers

\* A load reads the tables; what is cached is not looked at.
HandleQuery ==
  LET a == Head(msgs).actor
  IN  /\ Handles("query")
      /\ answers' = Append(answers, [actor |-> a, data |-> db[a]])
      /\ Handled
      /\ UNCHANGED cacheVars

\* Mutant: a character that was saved just now is not saved again when it leaves.
HandleLogoutCooling ==
  /\ Handles("logout")
  /\ SaveNow({a \in {Head(msgs).actor} : cache[a].due})
  /\ Handled
  /\ UNCHANGED <<list, cursor, answers>>

\* OnActorLogout.
HandleLogout ==
  /\ Handles("logout")
  /\ SaveNow({Head(msgs).actor})
  /\ Handled
  /\ UNCHANGED <<list, cursor, answers>>

\* dcSaveBaseRank, dcSaveBaseRankCS and dcUpdateChallengeData.
HandleRank ==
  /\ Handles("rank")
  /\ SaveAll
  /\ Handled
  /\ UNCHANGED answers

\* All is handled: the flag is cleared, and every five seconds there is a save.
RunCache(saves) ==
  /\ pc = "handle"
  /\ msgs = << >>
  /\ hasReadOp' = FALSE
  /\ pc' = IF saves THEN "save" ELSE "check"
  /\ UNCHANGED <<logicVars, appended, stop, cacheVars, msgs, answers>>

\* Mutant: an entry expires by its age, dirty or not.
SaveOneExpiresDirty(a) ==
  LET e == cache[a]
  IN  IF e.due
      THEN cache' = [cache EXCEPT ![a].expired = TRUE] /\ UNCHANGED db
      ELSE UNCHANGED <<cache, db>>

\* SaveActorDataImpl with the cooldown, for one character: what was clean for long
\* expires, what is dirty is written when it has cooled down.
SaveOne(a) ==
  LET e == cache[a]
  IN  IF e.dirty = {}
      THEN /\ cache' = [cache EXCEPT ![a].expired = @ \/ e.due]
           /\ UNCHANGED db
      ELSE IF ~ e.due
      THEN UNCHANGED <<cache, db>>
      ELSE /\ cache' = [cache EXCEPT ![a].dirty = {}, ![a].due = FALSE]
           /\ db' = [db EXCEPT ![a] = Written(a)]

\* Mutant: the iterator stays at the end of the list.
SaveDataOnce ==
  /\ pc = "save"
  /\ IF AtEnd
     THEN pc' = "expire" /\ UNCHANGED <<cache, cursor, db>>
     ELSE /\ cursor' = NextActor
          /\ SaveOne(NextActor)
          /\ \/ pc' = "save"
             \/ SavesTakeLong /\ hasReadOp /\ pc' = "expire"
  /\ UNCHANGED <<logicVars, queueVars, list, msgs, answers>>

\* SaveData, one node at a time; it pauses for a load once its time is up.
SaveData ==
  /\ pc = "save"
  /\ IF AtEnd
     THEN cursor' = NoActor /\ pc' = "expire" /\ UNCHANGED <<cache, db>>
     ELSE /\ cursor' = NextActor
          /\ SaveOne(NextActor)
          /\ \/ pc' = "save"
             \/ SavesTakeLong /\ hasReadOp /\ pc' = "expire"
  /\ UNCHANGED <<logicVars, queueVars, list, msgs, answers>>

\* The positions in S in their order, numbered from 1: there is one such function.
InOrderOf(S) ==
  {f \in [1 .. Cardinality(S) -> S] : \A i, j \in DOMAIN f : i < j => f[i] < f[j]}

\* The list without the nodes of expired entries.
Stays == {i \in DOMAIN list : ~ cache[list[i]].expired}
OnlyStays == \E f \in InOrderOf(Stays) : list' = [i \in DOMAIN f |-> list[f[i]]]

\* Mutant: the node is taken from the list behind the iterator's back.
RemoveExpireCacheDangling ==
  /\ pc = "expire"
  /\ OnlyStays
  /\ cache' = [a \in Actor |-> IF cache[a].expired THEN Unused ELSE cache[a]]
  /\ pc' = "check"
  /\ UNCHANGED <<logicVars, queueVars, cursor, db, msgs, answers>>

\* RemoveExpireCache; the iterator goes back over the nodes that are removed.
RemoveExpireCache ==
  LET before == {i \in Stays : i <= Position}
  IN  /\ pc = "expire"
      /\ cursor' = IF before = {} THEN NoActor
                   ELSE list[Max(before)]
      /\ OnlyStays
      /\ cache' = [a \in Actor |-> IF cache[a].expired THEN Unused ELSE cache[a]]
      /\ pc' = "check"
      /\ UNCHANGED <<logicVars, queueVars, db, msgs, answers>>

\* ThreadLogicProc ends: what was not flushed is not handled any more.
Quit ==
  /\ pc = "check"
  /\ stop
  /\ SaveAll
  /\ pc' = "ended"
  /\ UNCHANGED <<logicVars, queueVars, msgs, answers>>

HandleMessage == HandleSave \/ HandleQuery \/ HandleLogout \/ HandleRank

Handler ==
  \/ Flush \/ HandleMessage
  \/ \E saves \in BOOLEAN : RunCache(saves)
  \/ SaveData \/ RemoveExpireCache \/ Quit

\* Time passes.
Age(a) ==
  /\ \E i \in DOMAIN list : list[i] = a
  /\ ~ cache[a].due
  /\ cache' = [cache EXCEPT ![a].due = TRUE]
  /\ UNCHANGED <<logicVars, queueVars, list, cursor, db, msgs, pc, answers>>

Next == Environment \/ Handler \/ \E a \in Actor : Age(a)

Spec == Init /\ [][Next]_vars

\* The handler runs; the five seconds are over again and again; time passes.
FairSpec ==
  /\ Spec
  /\ WF_vars(Handler) /\ SF_vars(RunCache(TRUE))
  /\ \A a \in Actor : WF_vars(Age(a))

-----------------------------------------------------------------------------
(* Correctness *)

Entry == [version : [Type -> Version], dirty : SUBSET (Type \ Direct),
          due : BOOLEAN, expired : BOOLEAN]
Answer == [actor : Actor, data : [Type -> Version]]

\* The list holds every character once, those that are cached; the iterator stands
\* on one of its nodes or on none.
TypeOK ==
  /\ game \in [Actor -> {"out", "asking", "in"}]
  /\ sent \in [Actor -> [Type -> Version]]
  /\ appended \in Seq(Message) /\ msgs \in Seq(Message)
  /\ hasReadOp \in BOOLEAN /\ stop \in BOOLEAN
  /\ pc \in {"check", "handle", "save", "expire", "ended"}
  /\ cache \in [Actor -> Entry]
  /\ list \in Seq(Actor) /\ IsInjective(list)
  /\ \A a \in Actor : cache[a] # Unused => \E i \in DOMAIN list : list[i] = a
  /\ cursor = NoActor \/ \E i \in DOMAIN list : list[i] = cursor
  /\ db \in [Actor -> [Type -> Version]]
  /\ answers \in Seq(Answer)

Kept == Type \ Late
KeptOf(data) == [t \in Kept |-> data[t]]

\* The newest version of the parts that are saved in the game only.
newest == [a \in Actor |-> KeptOf(Written(a))]
keptAnswers == [i \in DOMAIN answers |-> [actor |-> answers[i].actor, data |-> KeptOf(answers[i].data)]]

Store == INSTANCE ActorStore WITH Type <- Kept, store <- newest, answers <- keptAnswers

\* The cache cannot be told from a store without one: nothing that was handled is
\* lost or replaced by something older, and a load is answered with the newest,
\* although it reads the tables only.
ImplementsStore == Store!Spec

\* The answer that comes next is the only load of the character that is under way.
OnlyLoad(a) ==
  /\ \A i \in DOMAIN answers : answers[i].actor = a => i = 1
  /\ \A i \in DOMAIN msgs : msgs[i] # Query(a)
  /\ \A i \in DOMAIN appended : appended[i] # Query(a)

\* What a character comes back with is what it left with (Actor.cpp:516: it is saved
\* when it leaves), unless an answer to an earlier load, which it did not wait for, is
\* taken for it (EntityManager.cpp:553-557).
ComesBackAsItLeft ==
  [][\A a \in Actor : game[a] = "asking" /\ game'[a] = "in" /\ OnlyLoad(a) =>
       KeptOf(Head(answers).data) = KeptOf(sent[a])]_vars

\* What is cached is written, however often loads make the save pause, unless the
\* connection is lost.
WrittenInTheEnd ==
  \A a \in Actor : \A t \in Parts[a] : t \in cache[a].dirty ~> (t \notin cache[a].dirty \/ stop)

\* SaveAllActorDataImmediately saves all before the thread quits
\* (DBDataClientHandler.cpp:1221, DBDataCache.cpp:213-215).
AllSavedAtQuit == pc = "ended" => \A a \in Actor : cache[a].dirty = {}
=============================================================================
