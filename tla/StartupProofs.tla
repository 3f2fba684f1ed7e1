---------------------------- MODULE StartupProofs ----------------------------
(***************************************************************************)
(* Proofs about Startup, for any set of instances and any number of        *)
(* starts.                                                                 *)
(***************************************************************************)
EXTENDS Startup, FiniteSetTheorems, TLAPS

-----------------------------------------------------------------------------
(* Types.                                                                  *)

\* Every variable keeps its type, and the offsets of init-topic their order.
LEMMA TypesKept == TypeOK /\ [Next]_vars => TypeOK'
<1> SUFFICES ASSUME TypeOK, [Next]_vars PROVE TypeOK'
  OBVIOUS
<1> USE StartupAssumption DEF TypeOK, Labels, Script, Subscribed, Ended,
        databaseVars, topicVars
<1>1. ASSUME NEW s \in Instances, Start(s) PROVE TypeOK'
  BY <1>1 DEF Start
<1>2. ASSUME NEW s \in Instances, ScriptStep(s) PROVE TypeOK'
  <2>1. CASE DropDatabase(s) \/ DropUser(s) \/ CreateUser(s) \/ CreateDatabase(s)
    <3>1. \E t \in Instances, next \in Labels :
             pc' = [pc EXCEPT ![t] = next]
      BY <2>1 DEF Executes, DropDatabase, DropUser, CreateUser, CreateDatabase
    <3>2. /\ lone' \in [Instances -> BOOLEAN]
          /\ UNCHANGED <<starts, created, line, topicVars>>
      BY <2>1 DEF Executes, DropDatabase, DropUser, CreateUser, CreateDatabase
    <3>3. database' \in BOOLEAN /\ user' \in BOOLEAN
      BY <2>1 DEF DropDatabase, DropUser, CreateUser, CreateDatabase
    <3> QED
      BY <3>1, <3>2, <3>3
  <2>2. CASE CreateObject(s) \/ InsertRow(s)
    <3>1. Objects \in Nat /\ Rows \in Nat \ {0} /\ line[s] \in 0 .. (Objects + Rows - 1)
      OBVIOUS
    <3>2. NextLine(s)
      BY <2>2 DEF CreateObject, InsertRow
    <3>3. line' \in [Instances -> 0 .. (Objects + Rows - 1)]
      BY <3>1, <3>2 DEF NextLine
    <3>4. created' \in 0 .. Objects
      BY <2>2, <3>1 DEF CreateObject, InsertRow
    <3>5. /\ pc' \in [Instances -> Labels] /\ lone' \in [Instances -> BOOLEAN]
          /\ UNCHANGED <<starts, database, user, topicVars>>
      BY <3>2 DEF NextLine, Executes
    <3> QED
      BY <3>3, <3>4, <3>5
  <2> QED
    BY <1>2, <2>1, <2>2 DEF ScriptStep
<1>3. ASSUME NEW s \in Instances, Collides(s) PROVE TypeOK'
  BY <1>3 DEF Collides
<1>4. ASSUME NEW s \in Instances, SendInit(s) \/ SendInitFails(s) PROVE TypeOK'
  BY <1>4 DEF SendInit, SendInitFails, Goto
<1>5. ASSUME NEW s \in Instances, ReceiveInit(s) PROVE TypeOK'
  BY <1>5 DEF ReceiveInit, Goto
<1>6. ASSUME NEW s \in Instances, TimesOut(s) PROVE TypeOK'
  BY <1>6 DEF TimesOut, Goto
<1>7. ASSUME NEW s \in Instances, CreateTopic(s) PROVE TypeOK'
  BY <1>7 DEF CreateTopic, Goto
<1>8. ASSUME NEW s \in Instances, Assign(s) PROVE TypeOK'
  BY <1>8 DEF Assign
<1>9. ASSUME NEW s \in Instances, Die(s) PROVE TypeOK'
  BY <1>9 DEF Die
<1>10. ASSUME UNCHANGED vars PROVE TypeOK'
  BY <1>10 DEF vars
<1>11. ASSUME NEW s \in Instances, RecvFails(s) \/ TurnAgain(s) PROVE TypeOK'
  BY <1>11 DEF RecvFails, TurnAgain, Goto
<1> QED
  BY <1>1, <1>2, <1>3, <1>4, <1>5, <1>6, <1>7, <1>8, <1>9, <1>10, <1>11
  DEF Next, OwnStep, HandshakeStep

\* TypeOK holds of every state of the start-up of any number of instances.
THEOREM StartupTypes == Spec => []TypeOK
<1>1. Init => TypeOK
  BY StartupAssumption DEF Init, TypeOK, Labels, Script, Subscribed, Ended
<1> QED
  BY <1>1, TypesKept, PTL DEF Spec

-----------------------------------------------------------------------------
(* Not all fail.                                                           *)

\* An instance that is at none of these statements and has not failed.
Beyond(statements) == \E s \in Instances : pc[s] \notin statements \cup {"failed"}

\* Whatever would make the next statement of an instance fail was done by
\* another one that has got further since, or has yet to begin.
Ahead ==
    /\ Beyond({})
    /\ database /\ (\E s \in Instances :
                       pc[s] \in {"drop_user", "create_user", "create_database"})
       => Beyond({"drop_user", "create_user", "create_database"})
    /\ user /\ (\E s \in Instances : pc[s] = "create_user")
       => Beyond({"create_user"})
    /\ ~user /\ (\E s \in Instances : pc[s] = "create_database")
       => Beyond({"create_database"})

LEMMA AheadKept == TypeOK /\ Ahead /\ [Next]_vars => Ahead'
<1> SUFFICES ASSUME TypeOK, Ahead, [Next]_vars PROVE Ahead'
  OBVIOUS
<1> USE DEF TypeOK, Ahead, Beyond, databaseVars
<1>1. ASSUME NEW s \in Instances, Start(s) PROVE Ahead'
  BY <1>1 DEF Start, Ended
<1>2. ASSUME NEW s \in Instances, DropDatabase(s) PROVE Ahead'
  BY <1>2 DEF DropDatabase, Executes
<1>3. ASSUME NEW s \in Instances, DropUser(s) PROVE Ahead'
  BY <1>3 DEF DropUser, Executes
<1>4. ASSUME NEW s \in Instances, CreateUser(s) PROVE Ahead'
  BY <1>4 DEF CreateUser, Executes
<1>5. ASSUME NEW s \in Instances, CreateDatabase(s) PROVE Ahead'
  BY <1>5 DEF CreateDatabase, Executes
<1>6. ASSUME NEW s \in Instances, CreateObject(s) \/ InsertRow(s)
      PROVE  Ahead'
  BY <1>6 DEF CreateObject, InsertRow, NextLine, Executes
<1>7. ASSUME NEW s \in Instances, Collides(s) PROVE Ahead'
  BY <1>7 DEF Collides, Script
<1>8. ASSUME NEW s \in Instances, HandshakeStep(s) \/ RecvFails(s)
      PROVE  Ahead'
  BY <1>8 DEF HandshakeStep, SendInit, SendInitFails, ReceiveInit, TimesOut,
              RecvFails, TurnAgain, CreateTopic, Goto
<1>9. ASSUME NEW s \in Instances, Assign(s) \/ Die(s) PROVE Ahead'
  BY <1>9 DEF Assign, Die, Ended
<1>10. ASSUME UNCHANGED vars PROVE Ahead'
  BY <1>10 DEF vars
<1> QED
  BY <1>1, <1>2, <1>3, <1>4, <1>5, <1>6, <1>7, <1>8, <1>9, <1>10
  DEF Next, OwnStep, ScriptStep

\* However the scripts of any number of instances interleave, one of them has
\* not failed (src/sql/00-recreate-db.sql, run by every instance).
THEOREM SomeStartSurvives == Spec => []NotAllFail
<1>1. Init => Ahead
  BY StartupAssumption DEF Init, Ahead, Beyond
<1>2. Ahead => NotAllFail
  BY DEF Ahead, Beyond, NotAllFail
<1>3. Init => TypeOK
  BY StartupAssumption DEF Init, TypeOK, Labels, Script, Subscribed, Ended
<1> QED
  BY <1>1, <1>2, <1>3, TypesKept, AheadKept, PTL DEF Spec

-----------------------------------------------------------------------------
(* A start without interference.                                           *)

\* While nobody interferes, the database is what the script has made of it.
Undisturbed ==
    \A s \in Instances :
        /\ pc[s] = "failed" => ~lone[s]
        /\ lone[s] => /\ pc[s] \in {"drop_user", "create_user", "create_database"}
                         => ~database
                      /\ pc[s] = "create_user" => ~user
                      /\ pc[s] = "create_database" => user

LEMMA UndisturbedKept == TypeOK /\ Undisturbed /\ [Next]_vars => Undisturbed'
<1> SUFFICES ASSUME TypeOK, Undisturbed, [Next]_vars PROVE Undisturbed'
  OBVIOUS
<1> USE DEF TypeOK, Undisturbed, databaseVars, Script
<1>1. ASSUME NEW s \in Instances, Start(s) PROVE Undisturbed'
  BY <1>1 DEF Start
<1>2. ASSUME NEW s \in Instances, DropDatabase(s) PROVE Undisturbed'
  BY <1>2 DEF DropDatabase, Executes
<1>3. ASSUME NEW s \in Instances, DropUser(s) PROVE Undisturbed'
  BY <1>3 DEF DropUser, Executes
<1>4. ASSUME NEW s \in Instances, CreateUser(s) PROVE Undisturbed'
  BY <1>4 DEF CreateUser, Executes
<1>5. ASSUME NEW s \in Instances, CreateDatabase(s) PROVE Undisturbed'
  BY <1>5 DEF CreateDatabase, Executes
<1>6. ASSUME NEW s \in Instances, CreateObject(s) \/ InsertRow(s)
      PROVE  Undisturbed'
  BY <1>6 DEF CreateObject, InsertRow, NextLine, Executes
<1>7. ASSUME NEW s \in Instances, Collides(s) PROVE Undisturbed'
  BY <1>7 DEF Collides
<1>8. ASSUME NEW s \in Instances, HandshakeStep(s) \/ RecvFails(s)
      PROVE  Undisturbed'
  BY <1>8 DEF HandshakeStep, SendInit, SendInitFails, ReceiveInit, TimesOut,
              RecvFails, TurnAgain, CreateTopic, Goto
<1>9. ASSUME NEW s \in Instances, Assign(s) \/ Die(s) PROVE Undisturbed'
  BY <1>9 DEF Assign, Die
<1>10. ASSUME UNCHANGED vars PROVE Undisturbed'
  BY <1>10 DEF vars
<1> QED
  BY <1>1, <1>2, <1>3, <1>4, <1>5, <1>6, <1>7, <1>8, <1>9, <1>10
  DEF Next, OwnStep, ScriptStep

\* Whatever aborted starts have left behind, a start that no other instance
\* interferes with does not fail (initialize_database).
THEOREM LoneStartsSurvive == Spec => []LoneStartGetsThrough
<1>1. Init => TypeOK /\ Undisturbed
  BY StartupAssumption
  DEF Init, TypeOK, Undisturbed, Labels, Script, Subscribed, Ended
<1>2. Undisturbed => LoneStartGetsThrough
  BY DEF Undisturbed, LoneStartGetsThrough
<1> QED
  BY <1>1, <1>2, TypesKept, UndisturbedKept, PTL DEF Spec

-----------------------------------------------------------------------------
(* The messages of init-topic.                                             *)

Enough == IsFiniteSet(Waiting) /\ MessageForEveryone

LEMMA OneMoreWaits ==
    ASSUME NEW s \in Instances, IsFiniteSet(Waiting), Waiting' = Waiting \cup {s}
    PROVE  IsFiniteSet(Waiting') /\ Cardinality(Waiting') <= Cardinality(Waiting) + 1
<1>1. Cardinality(Waiting) \in Nat
  BY FS_CardinalityType
<1> QED
  BY <1>1, FS_AddElement

LEMMA OneLessWaits ==
    ASSUME NEW s \in Waiting, IsFiniteSet(Waiting), Waiting' = Waiting \ {s}
    PROVE  IsFiniteSet(Waiting') /\ Cardinality(Waiting') = Cardinality(Waiting) - 1
BY FS_RemoveElement

LEMMA EnoughKept == TypeOK /\ Enough /\ [Next]_vars => Enough'
<1> SUFFICES ASSUME TypeOK, Enough, [Next]_vars PROVE Enough'
  OBVIOUS
<1> USE DEF TypeOK, Enough, MessageForEveryone
<1>0. Cardinality(Waiting) \in Nat /\ IsFiniteSet(Waiting)
  BY FS_CardinalityType
<1>1. ASSUME UNCHANGED <<pc, sent, position>> PROVE Enough'
  BY <1>1 DEF Waiting
\* Whoever is not about to wait, or waits on, leaves the others waiting.
<1>2. ASSUME NEW s \in Instances, s \notin Waiting, UNCHANGED position,
             sent' \in {sent, sent + 1},
             NEW label, label \notin {"wait", "report"},
             pc' = [pc EXCEPT ![s] = label]
      PROVE  Enough'
  <2>1. Waiting' = Waiting
    BY <1>2 DEF Waiting
  <2> QED
    BY <1>0, <1>2, <2>1
<1>3. ASSUME NEW s \in Instances, Start(s) PROVE Enough'
  BY <1>2, <1>3 DEF Start, Ended, Waiting
<1>4. ASSUME NEW s \in Instances, ScriptStep(s) PROVE Enough'
  <2>1. PICK statement \in Script, next \in Script \cup {"send", "failed"} :
           Executes(s, statement, next)
    BY <1>4 DEF ScriptStep, DropDatabase, DropUser, CreateUser, CreateDatabase,
                CreateObject, InsertRow, NextLine, Script
  <2> QED
    BY <1>2, <2>1 DEF Executes, Script, topicVars, Waiting
<1>5. ASSUME NEW s \in Instances, Collides(s) PROVE Enough'
  BY <1>2, <1>5 DEF Collides, Script, topicVars, Waiting
<1>6. ASSUME NEW s \in Instances, SendInit(s) PROVE Enough'
  <2>1. Waiting' = Waiting \cup {s}
    BY <1>6 DEF SendInit, Goto, Waiting
  <2>2. IsFiniteSet(Waiting') /\ Cardinality(Waiting') <= Cardinality(Waiting) + 1
    BY <1>0, <2>1, OneMoreWaits
  <2>3. Cardinality(Waiting') \in Nat
    BY <2>2, FS_CardinalityType
  <2>4. sent' = sent + 1 /\ position' = position
    BY <1>6 DEF SendInit
  <2> QED
    BY <1>0, <2>2, <2>3, <2>4
<1>7. ASSUME NEW s \in Instances, SendInitFails(s) PROVE Enough'
  BY <1>2, <1>7 DEF SendInitFails, Goto, Waiting
<1>8. ASSUME NEW s \in Waiting, NEW label, label \notin {"wait", "report"},
             pc' = [pc EXCEPT ![s] = label], UNCHANGED sent,
             position' \in {position, position + 1}
      PROVE  Enough'
  <2>1. s \in Instances /\ Waiting' = Waiting \ {s}
    BY <1>8 DEF Waiting
  <2>2. IsFiniteSet(Waiting') /\ Cardinality(Waiting') = Cardinality(Waiting) - 1
    BY <1>0, <1>8, <2>1, OneLessWaits
  <2> QED
    BY <1>0, <1>8, <2>2
<1>9. ASSUME NEW s \in Instances, ReceiveInit(s) PROVE Enough'
  BY <1>8, <1>9 DEF ReceiveInit, Goto, Waiting
<1>10. ASSUME NEW s \in Instances, TimesOut(s) PROVE Enough'
  <2>1. CASE pc' = pc
    BY <1>1, <1>10, <2>1 DEF TimesOut
  <2>2. CASE pc' = [pc EXCEPT ![s] = "stopped"]
    BY <1>8, <1>10, <2>2 DEF TimesOut, Waiting
  <2> QED
    BY <1>10, <2>1, <2>2 DEF TimesOut, Goto
<1>11. ASSUME NEW s \in Instances, CreateTopic(s) PROVE Enough'
  BY <1>2, <1>11 DEF CreateTopic, Goto, topicVars, Waiting
<1>12. ASSUME NEW s \in Instances, Assign(s) PROVE Enough'
  <2>1. Waiting' = Waiting /\ sent' = sent /\ position' \in Nat
        /\ position' <= position
    BY <1>12 DEF Assign, Waiting
  <2> QED
    BY <1>0, <2>1
<1>13. ASSUME NEW s \in Instances, Die(s) PROVE Enough'
  BY <1>2, <1>8, <1>13 DEF Die, Waiting
<1>14. ASSUME UNCHANGED vars PROVE Enough'
  BY <1>1, <1>14 DEF vars, topicVars
\* Whoever reports an error goes on waiting.
<1>15. ASSUME NEW s \in Instances, RecvFails(s) \/ TurnAgain(s) PROVE Enough'
  <2>1. Waiting' = Waiting /\ sent' = sent /\ position' = position
    BY <1>15 DEF RecvFails, TurnAgain, Goto, Waiting, topicVars
  <2> QED
    BY <1>0, <2>1
<1> QED
  BY <1>3, <1>4, <1>5, <1>6, <1>7, <1>9, <1>10, <1>11, <1>12, <1>13, <1>14,
     <1>15
  DEF Next, OwnStep, HandshakeStep

\* The shared consumer group leaves a message for every instance that waits,
\* however often the partition changes hands (KafkaManager::initialize).
THEOREM NobodyRunsOut == Spec => []MessageForEveryone
<1>1. Init => TypeOK
  BY StartupAssumption DEF Init, TypeOK, Labels, Script, Subscribed, Ended
<1>2. Init => Enough
  <2> SUFFICES ASSUME Init PROVE Enough
    OBVIOUS
  <2>1. Waiting = {} /\ sent = 0 /\ position = 0
    BY DEF Init, Waiting
  <2> QED
    BY <2>1, FS_EmptySet DEF Enough, MessageForEveryone
<1>3. Enough => MessageForEveryone
  BY DEF Enough
<1> QED
  BY <1>1, <1>2, <1>3, TypesKept, EnoughKept, PTL DEF Spec

-----------------------------------------------------------------------------
(* The schema.                                                             *)

\* What an instance has executed of the schema is there, and stays.
Executed ==
    \A s \in Instances :
        /\ line[s] <= created \/ created = Objects
        /\ pc[s] # "create_schema" => line[s] = 0
        /\ pc[s] \in Subscribed \cup {"serving"} => created = Objects

LEMMA ExecutedKept == TypeOK /\ Executed /\ [Next]_vars => Executed'
<1> SUFFICES ASSUME TypeOK, Executed, [Next]_vars PROVE Executed'
  OBVIOUS
<1> USE StartupAssumption DEF TypeOK, Executed, databaseVars, Subscribed
<1>1. ASSUME NEW s \in Instances, Start(s) \/ Collides(s) \/ Die(s)
      PROVE  Executed'
  BY <1>1 DEF Start, Collides, Die, Ended
<1>2. ASSUME NEW s \in Instances,
             DropDatabase(s) \/ DropUser(s) \/ CreateUser(s) \/ CreateDatabase(s)
      PROVE  Executed'
  BY <1>2 DEF DropDatabase, DropUser, CreateUser, CreateDatabase, Executes
<1>3. ASSUME NEW s \in Instances, CreateObject(s) PROVE Executed'
  BY <1>3 DEF CreateObject, NextLine, Executes
<1>4. ASSUME NEW s \in Instances, InsertRow(s) PROVE Executed'
  BY <1>4 DEF InsertRow, NextLine, Executes
<1>5. ASSUME NEW s \in Instances, HandshakeStep(s) \/ RecvFails(s)
      PROVE  Executed'
  BY <1>5 DEF HandshakeStep, SendInit, SendInitFails, ReceiveInit, TimesOut,
              RecvFails, TurnAgain, CreateTopic, Goto
<1>6. ASSUME NEW s \in Instances, Assign(s) PROVE Executed'
  BY <1>6 DEF Assign
<1>7. ASSUME UNCHANGED vars PROVE Executed'
  BY <1>7 DEF vars
<1> QED
  BY <1>1, <1>2, <1>3, <1>4, <1>5, <1>6, <1>7 DEF Next, OwnStep, ScriptStep

\* An instance that serves has the whole schema, wherever earlier starts and
\* other instances have left off (execute_multi_query, 01-create-schema.sql).
THEOREM FullSchema == Spec => []ServesOnFullSchema
<1>1. Init => TypeOK /\ Executed
  BY StartupAssumption
  DEF Init, TypeOK, Executed, Labels, Script, Subscribed, Ended
<1>2. Executed => ServesOnFullSchema
  BY DEF Executed, ServesOnFullSchema
<1> QED
  BY <1>1, <1>2, TypesKept, ExecutedKept, PTL DEF Spec

-----------------------------------------------------------------------------
(* What is left of StartSettles but the fairness.                          *)

\* Steps that an instance still has before it serves or ends, at most, not
\* counting those by which recv() reports an error.
Rank(s) ==
    CASE pc[s] = "drop_database"   -> MaxAttempts + Objects + Rows + 8
      [] pc[s] = "drop_user"       -> MaxAttempts + Objects + Rows + 7
      [] pc[s] = "create_user"     -> MaxAttempts + Objects + Rows + 6
      [] pc[s] = "create_database" -> MaxAttempts + Objects + Rows + 5
      [] pc[s] = "create_schema"   -> MaxAttempts + (Objects + Rows - line[s]) + 4
      [] pc[s] = "send"            -> MaxAttempts + 4
      [] pc[s] \in {"wait", "report"} -> (MaxAttempts - attempts[s]) + 3
      [] pc[s] = "create_topic"    -> 2
      [] pc[s] = "serving"         -> 1
      [] OTHER                     -> 0

RunsDown(s) == Rank(s)' \in 0 .. (Rank(s) - 1)

\* A turn of the loop of initialize that counts nothing: recv() has returned
\* an error, or it is logged.
ReportsError(s) == (RecvFails(s) \/ TurnAgain(s)) /\ Rank(s)' = Rank(s)

LEMMA RanksAre ==
    ASSUME TypeOK, NEW s \in Instances
    PROVE  /\ Rank(s) \in Nat
           /\ pc[s] \in Ended <=> Rank(s) = 0
           /\ pc[s] = "serving" <=> Rank(s) = 1
<1>1. /\ pc[s] \in Labels /\ line[s] \in 0 .. (Objects + Rows - 1)
      /\ attempts[s] \in 0 .. MaxAttempts
      /\ Objects \in Nat /\ Rows \in Nat /\ MaxAttempts \in Nat
  BY StartupAssumption DEF TypeOK
<1> QED
  BY <1>1 DEF Rank, Labels, Script, Subscribed, Ended

\* Whatever an instance does brings it closer to serving or to its end, unless
\* it reports an error of recv().
LEMMA OwnStepRunsDown ==
    ASSUME TypeOK, TypeOK', NEW s \in Instances, OwnStep(s) \/ RecvFails(s)
    PROVE  RunsDown(s) \/ ReportsError(s)
<1>1. /\ pc \in [Instances -> Labels] /\ attempts \in [Instances -> Nat]
      /\ line \in [Instances -> Nat] /\ line'[s] \in Nat
      /\ line[s] <= Objects + Rows - 1 /\ line'[s] <= Objects + Rows - 1
      /\ attempts[s] <= MaxAttempts /\ attempts'[s] \in Nat
      /\ attempts'[s] <= MaxAttempts
      /\ MaxAttempts \in Nat /\ Objects \in Nat /\ Rows \in Nat
  BY StartupAssumption DEF TypeOK
<1>2. CASE DropDatabase(s) \/ DropUser(s) \/ CreateUser(s) \/ CreateDatabase(s)
  BY <1>1, <1>2 DEF Executes, DropDatabase, DropUser, CreateUser,
     CreateDatabase, databaseVars, RunsDown, Rank
<1>3. CASE CreateObject(s) \/ InsertRow(s)
  BY <1>1, <1>3 DEF CreateObject, InsertRow, NextLine, Executes, RunsDown, Rank
<1>4. CASE SendInit(s) \/ SendInitFails(s)
  BY <1>1, <1>4 DEF SendInit, SendInitFails, Goto, RunsDown, Rank
<1>5. CASE ReceiveInit(s) \/ CreateTopic(s)
  BY <1>1, <1>5 DEF ReceiveInit, CreateTopic, Goto, RunsDown, Rank
<1>6. CASE TimesOut(s)
  BY <1>1, <1>6 DEF TimesOut, Goto, RunsDown, Rank
<1>7. CASE RecvFails(s) \/ TurnAgain(s)
  BY <1>1, <1>7 DEF RecvFails, TurnAgain, Goto, topicVars, ReportsError, Rank
<1> QED
  BY <1>2, <1>3, <1>4, <1>5, <1>6, <1>7 DEF OwnStep, ScriptStep, HandshakeStep

\* A start makes at most MaxAttempts + Objects + Rows + 8 steps before it serves
\* or ends, besides the turns in which recv() returns an error, of which the
\* code bounds nothing: every other step lowers its rank, and nothing but a new
\* start raises it again.  That the steps are made at all, and the errors come
\* to an end or not, is what StartSettles adds.
THEOREM StartsRunDown ==
    Spec => [][\A s \in Instances :
                  /\ OwnStep(s) => RunsDown(s) \/ ReportsError(s)
                  /\ \/ RunsDown(s) \/ ReportsError(s)
                     \/ pc'[s] = pc[s] /\ Rank(s)' = Rank(s)
                     \/ Start(s)]_vars
<1>1. ASSUME TypeOK, TypeOK', Next, NEW s \in Instances
      PROVE  /\ OwnStep(s) => RunsDown(s) \/ ReportsError(s)
             /\ \/ RunsDown(s) \/ ReportsError(s)
                \/ pc'[s] = pc[s] /\ Rank(s)' = Rank(s)
                \/ Start(s)
  <2>1. OwnStep(s) \/ RecvFails(s) => RunsDown(s) \/ ReportsError(s)
    BY <1>1, OwnStepRunsDown
  <2>2. pc'[s] = "failed" \/ pc'[s] = "stopped" => Rank(s)' = 0
    BY DEF Rank, Ended
  <2>3. pc[s] \notin Ended => Rank(s) \in Nat \ {0}
    BY <1>1, RanksAre
  <2>4. Collides(s) \/ Die(s) => RunsDown(s)
    <3>1. Collides(s) \/ Die(s)
            => pc[s] \notin Ended /\ pc'[s] \in {"failed", "stopped"}
      BY <1>1 DEF Collides, Die, Script, Ended, TypeOK
    <3> QED
      BY <2>2, <2>3, <3>1 DEF RunsDown
  <2>5. pc'[s] = pc[s] /\ attempts'[s] = attempts[s] /\ line'[s] = line[s]
          => Rank(s)' = Rank(s)
    BY DEF Rank
  <2>6. Assign(s) => pc'[s] = pc[s] /\ attempts'[s] = attempts[s]
                     /\ line'[s] = line[s]
    BY DEF Assign, databaseVars
  <2>7. ASSUME NEW t \in Instances \ {s},
               \/ Start(t) \/ OwnStep(t) \/ Collides(t) \/ RecvFails(t)
               \/ Assign(t) \/ Die(t)
        PROVE  pc'[s] = pc[s] /\ attempts'[s] = attempts[s] /\ line'[s] = line[s]
    <3> USE <1>1 DEF TypeOK, topicVars, databaseVars
    <3>1. CASE ScriptStep(t)
      BY <3>1 DEF ScriptStep, Executes, DropDatabase, DropUser, CreateUser,
         CreateDatabase, CreateObject, InsertRow, NextLine
    <3>2. CASE HandshakeStep(t) \/ RecvFails(t)
      BY <3>2 DEF HandshakeStep, SendInit, SendInitFails, ReceiveInit, TimesOut,
         RecvFails, TurnAgain, CreateTopic, Goto
    <3>3. CASE Start(t) \/ Collides(t) \/ Assign(t) \/ Die(t)
      BY <3>3 DEF Start, Collides, Assign, Die
    <3> QED
      BY <2>7, <3>1, <3>2, <3>3 DEF OwnStep
  <2> QED
    BY <1>1, <2>1, <2>4, <2>5, <2>6, <2>7 DEF Next
<1>2. TypeOK /\ TypeOK' /\ [Next]_vars
      => [\A s \in Instances :
             /\ OwnStep(s) => RunsDown(s) \/ ReportsError(s)
             /\ \/ RunsDown(s) \/ ReportsError(s)
                \/ pc'[s] = pc[s] /\ Rank(s)' = Rank(s)
                \/ Start(s)]_vars
  BY <1>1
<1> QED
  BY <1>2, StartupTypes, PTL DEF Spec
=============================================================================
