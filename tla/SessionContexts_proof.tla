------------------------ MODULE SessionContexts_proof ------------------------
(***************************************************************************)
(* For any commands, folders, configurations and edits by hand, where one  *)
(* request at a time is dispatched (Serial): answers have read what was    *)
(* edited, are of the caller's configuration, contexts go only for a       *)
(* reason, and what was added stays in the file.                           *)
(*                                                                         *)
(* All of it rests on turns: whoever is between a dispatch and a response  *)
(* has the lock (TurnsInv), so that nobody sees a context that is stored   *)
(* and not noted yet, or a file that is emptied and not written yet.       *)
(***************************************************************************)
EXTENDS SessionContexts, TLAPS

Serial == \A s \in Setting : ~s.http

\* Between a request's dispatch and its response.
Dispatched ==
    {"compare", "check", "build", "store", "note", "made",
     "read", "empty", "write", "evict", "edited"}

\* One request at a time is dispatched (socket_server.py:152).
TurnsInv == \A c \in Command : pc[c] \in Dispatched => turn = c

\* Errors are final, and only an edit that evicts gets to evict.
PathsInv ==
    \A c \in Command :
        /\ error[c] # None => pc[c] \in {"evict", "edited", "over"}
        /\ pc[c] = "evict" => Evicts(c)

Stored(c) == pc[c] \notin {"new", "compare", "check", "build", "store"}

\* What is stored, and what serves a command, is a context that is built for good.
StoredInv ==
    /\ \A f \in Folder : contexts[f] # None => Stored(contexts[f]) /\ FolderOf(contexts[f]) = f
    /\ \A c \in Command : serving[c] # None =>
        Stored(serving[c]) /\ pc[c] \in {"read", "empty", "write", "evict", "edited", "over"}

\* A context is at least as new as the last edit of its folder, and one that is about to be
\* stored is newer than any command; a command that has its id counts on no failed one.
VersionsInv ==
    /\ \A f \in Folder : edited[f] <= file.version
    /\ \A c \in Command : began[c] <= file.version /\ owed[c] <= edited[FolderOf(c)]
    /\ \A f \in Folder : contexts[f] # None => built[contexts[f]].version >= edited[f]
    /\ \A c \in Command : pc[c] = "store" =>
        /\ built[c].version >= edited[FolderOf(c)]
        /\ \A d \in Command : built[c].version >= began[d]
    /\ \A c \in Command : LET warm == contexts[FolderOf(c)] IN
        pc[c] \in {"note", "made", "created"} /\ warm # None /\ ~built[warm].loaded =>
            built[warm].version >= began[c]

\* Commands that go on at the same time have met.
MetInv == \A c, d \in Running : c # d => d \in met[c]

RivalOf(c) == \E d \in met[c] : FolderOf(d) = FolderOf(c) /\ ConfigOf(d) # ConfigOf(c)

\* The note tells what a stored context was built with, except while it is made; and a
\* command that has its id has a context of its own configuration, or a rival.
ConfigsInv ==
    /\ \A f \in Folder : contexts[f] # None /\ pc[contexts[f]] # "note" =>
        configs[f] = built[contexts[f]].config
    /\ \A c \in Command : LET warm == contexts[FolderOf(c)] IN
        /\ pc[c] = "store" => built[c].config = ConfigOf(c)
        /\ pc[c] = "check" /\ warm # None => built[warm].config = ConfigOf(c)
        /\ pc[c] \in {"note", "made"} => warm # None /\ built[warm].config = ConfigOf(c)
        /\ pc[c] = "note" => warm = c
        /\ pc[c] = "created" /\ warm # None => built[warm].config = ConfigOf(c) \/ RivalOf(c)

\* The commands whose context may be gone for a reason.
Excused ==
    {c \in Command : \E d \in met[c] :
        \/ Does(d) = "reset"
        \/ /\ FolderOf(d) = FolderOf(c)
           /\ Evicts(d) \/ ConfigOf(d) # ConfigOf(c) \/ error[d] = "invalid"}

\* A command with an id has its context, unless there is a reason or another one is being built.
EvictedInv ==
    /\ \A c \in Command : pc[c] = "created" /\ contexts[FolderOf(c)] = None =>
        \/ c \in Excused
        \/ \E d \in Command : FolderOf(d) = FolderOf(c) /\ pc[d] \in {"build", "store"}
    /\ \A c \in Command : error[c] \in {"unknown", "internal"} => c \in Excused

\* The edits that have been written.
Written ==
    {c \in Command : /\ Edits(c) /\ serving[c] # None /\ error[c] = None
                     /\ pc[c] \in {"evict", "edited", "over"} /\ built[serving[c]].loaded}

\* They are in the file, or in what the edit that has emptied it is about to write.
WrittenInv == setting.failing = {} =>
    /\ (\A d \in Command : pc[d] # "write") => Written \subseteq file.edits
    /\ \A c \in Command : pc[c] \in {"empty", "write"} => Written \subseteq base[c]

CommandStep(c) ==
    \/ Create(c) \/ DropOther(c) \/ DropFailed(c) \/ Build(c) \/ BuildRaises(c)
    \/ Store(c) \/ Note(c) \/ Created(c) \/ CreateRaises(c)
    \/ Refuse(c) \/ Answer(c) \/ StartEdit(c) \/ ReadFile(c) \/ EmptyFile(c)
    \/ WriteFile(c) \/ EditRaises(c) \/ Evict(c) \/ EndConvert(c) \/ Reset(c)

-----------------------------------------------------------------------------
(* Types                                                                   *)

\* A command has a folder of the workspace and a configuration.
LEMMA SettingTypes ==
    ASSUME setting \in Setting, NEW c \in Command
    PROVE  FolderOf(c) \in Folder /\ ConfigOf(c) \in Config
BY SessionAssumption DEF SettingOK, FolderOf, ConfigOf

\* Who begins is met by those that are going on.
LEMMA MeetTypes ==
    ASSUME met \in [Command -> SUBSET Command], NEW c \in Command, Meets(c)
    PROVE  met' \in [Command -> SUBSET Command]
BY DEF Meets, Running

\* Every step keeps the state well typed.
LEMMA StepTypes ==
    ASSUME TypeOK, [Next]_vars
    PROVE  TypeOK'
<1> USE DEF TypeOK, Context, FileStates
<1>1. CASE UNCHANGED vars
  BY <1>1 DEF vars
<1>2. ASSUME NEW c \in Command, CommandStep(c) PROVE TypeOK'
  <2> FolderOf(c) \in Folder /\ ConfigOf(c) \in Config
    BY SettingTypes
  <2>1. CASE Create(c)
    BY <2>1, MeetTypes DEF Create, Dispatch
  <2>2. CASE DropOther(c)
    BY <2>2 DEF DropOther
  <2>3. CASE DropFailed(c)
    BY <2>3 DEF DropFailed
  <2>4. CASE Build(c)
    BY <2>4 DEF Build
  <2>5. CASE BuildRaises(c)
    BY <2>5 DEF BuildRaises, Fail, Respond
  <2>6. CASE Store(c)
    BY <2>6 DEF Store
  <2>7. CASE Note(c)
    BY <2>7 DEF Note
  <2>8. CASE Created(c)
    BY <2>8 DEF Created
  <2>9. CASE CreateRaises(c)
    BY <2>9 DEF CreateRaises, Fail, Respond
  <2>10. CASE Refuse(c)
    BY <2>10 DEF Refuse, Fail, Respond
  <2>11. CASE Answer(c)
    BY <2>11 DEF Answer, Respond
  <2>12. CASE StartEdit(c)
    BY <2>12 DEF StartEdit, Dispatch
  <2>13. CASE ReadFile(c)
    BY <2>13 DEF ReadFile
  <2>14. CASE EmptyFile(c)
    BY <2>14 DEF EmptyFile
  <2>15. CASE WriteFile(c)
    BY <2>15 DEF WriteFile
  <2>16. CASE EditRaises(c)
    BY <2>16 DEF EditRaises
  <2>17. CASE Evict(c)
    BY <2>17 DEF Evict, Respond
  <2>18. CASE EndConvert(c)
    BY <2>18 DEF EndConvert, Respond
  <2>19. CASE Reset(c)
    BY <2>19, MeetTypes DEF Reset, Respond
  <2> QED
    BY <1>2, <2>1, <2>2, <2>3, <2>4, <2>5, <2>6, <2>7, <2>8, <2>9, <2>10, <2>11,
       <2>12, <2>13, <2>14, <2>15, <2>16, <2>17, <2>18, <2>19 DEF CommandStep
<1>3. CASE EditByHand
  <2>1. PICK s \in FileStates : file' = [file EXCEPT !.state = s, !.version = @ + 1]
    BY <1>3 DEF EditByHand
  <2>2. file' = [state |-> s, version |-> file.version + 1, edits |-> file.edits]
    BY <2>1
  <2> QED
    BY <1>3, <2>2, SessionAssumption DEF EditByHand
<1> QED
  BY <1>1, <1>2, <1>3 DEF Next, CommandStep

\* One request at a time.
Typed == TypeOK /\ ~setting.http

\* A step takes the lock or has it.
LEMMA StepTurns ==
    ASSUME Typed, TurnsInv, [Next]_vars
    PROVE  TurnsInv'
<1> USE DEF Typed, TypeOK, TurnsInv, Dispatched
<1> None \notin Command \cup {"invalid", "internal", "unknown", "failed"}
  BY SessionAssumption
<1>1. CASE UNCHANGED vars
  BY <1>1 DEF vars
<1>2. ASSUME NEW c \in Command, CommandStep(c) PROVE TurnsInv'
  <2>1. CASE Create(c) \/ DropOther(c) \/ DropFailed(c)
    BY <2>1 DEF Create, Dispatch, DropOther, DropFailed
  <2>2. CASE Build(c) \/ BuildRaises(c) \/ Store(c)
    BY <2>2 DEF Build, BuildRaises, Fail, Respond, Store
  <2>3. CASE Note(c) \/ Created(c) \/ CreateRaises(c)
    BY <2>3 DEF Note, Created, CreateRaises, Fail, Respond
  <2>4. CASE Refuse(c) \/ Answer(c)
    BY <2>4 DEF Refuse, Fail, Respond, Answer
  <2>5. CASE StartEdit(c) \/ ReadFile(c) \/ EmptyFile(c)
    BY <2>5 DEF StartEdit, Dispatch, ReadFile, EmptyFile
  <2>6. CASE WriteFile(c) \/ EditRaises(c) \/ Evict(c)
    BY <2>6 DEF WriteFile, EditRaises, Evict, Respond
  <2>7. CASE EndConvert(c) \/ Reset(c)
    BY <2>7 DEF EndConvert, Respond, Reset
  <2> QED
    BY <1>2, <2>1, <2>2, <2>3, <2>4, <2>5, <2>6, <2>7 DEF CommandStep
<1>3. CASE EditByHand
  BY <1>3 DEF EditByHand
<1> QED
  BY <1>1, <1>2, <1>3 DEF Next, CommandStep

\* Errors end a command, or its edit.
LEMMA StepPaths ==
    ASSUME Typed, TurnsInv, PathsInv, [Next]_vars
    PROVE  PathsInv'
<1> USE DEF Typed, TypeOK, PathsInv, Evicts, Does
<1> None \notin Command \cup {"invalid", "internal", "unknown", "failed"}
  BY SessionAssumption
<1>1. CASE UNCHANGED vars
  BY <1>1 DEF vars
<1>2. ASSUME NEW c \in Command, CommandStep(c) PROVE PathsInv'
  <2>1. CASE Create(c) \/ DropOther(c) \/ DropFailed(c)
    BY <2>1 DEF Create, Dispatch, DropOther, DropFailed
  <2>2. CASE Build(c) \/ BuildRaises(c) \/ Store(c)
    BY <2>2 DEF Build, BuildRaises, Fail, Respond, Store
  <2>3. CASE Note(c) \/ Created(c) \/ CreateRaises(c)
    BY <2>3 DEF Note, Created, CreateRaises, Fail, Respond
  <2>4. CASE Refuse(c) \/ Answer(c)
    BY <2>4 DEF Refuse, Fail, Respond, Answer
  <2>5. CASE StartEdit(c) \/ ReadFile(c) \/ EmptyFile(c)
    BY <2>5 DEF StartEdit, Dispatch, ReadFile, EmptyFile
  <2>6. CASE WriteFile(c) \/ EditRaises(c) \/ Evict(c)
    BY <2>6 DEF WriteFile, EditRaises, Evict, Respond
  <2>7. CASE EndConvert(c) \/ Reset(c)
    BY <2>7 DEF EndConvert, Respond, Reset
  <2> QED
    BY <1>2, <2>1, <2>2, <2>3, <2>4, <2>5, <2>6, <2>7 DEF CommandStep
<1>3. CASE EditByHand
  BY <1>3 DEF EditByHand
<1> QED
  BY <1>1, <1>2, <1>3 DEF Next, CommandStep

\* Only what is built is stored, in its folder.
LEMMA StepStored ==
    ASSUME Typed, TurnsInv, StoredInv, [Next]_vars
    PROVE  StoredInv'
<1> USE DEF Typed, TypeOK, StoredInv, Stored, FolderOf
<1> None \notin Command \cup {"invalid", "internal", "unknown", "failed"}
  BY SessionAssumption
<1> \A d \in Command : setting.folder[d] \in Folder /\ setting.config[d] \in Config
  BY SessionAssumption DEF SettingOK
<1>1. CASE UNCHANGED vars
  BY <1>1 DEF vars
<1>2. ASSUME NEW c \in Command, CommandStep(c) PROVE StoredInv'
  <2>1. CASE Create(c) \/ DropOther(c) \/ DropFailed(c)
    BY <2>1 DEF Create, Dispatch, DropOther, DropFailed
  <2>2. CASE Build(c) \/ BuildRaises(c) \/ Store(c)
    BY <2>2 DEF Build, BuildRaises, Fail, Respond, Store
  <2>3. CASE Note(c) \/ Created(c) \/ CreateRaises(c)
    BY <2>3 DEF Note, Created, CreateRaises, Fail, Respond
  <2>4. CASE Refuse(c) \/ Answer(c)
    BY <2>4 DEF Refuse, Fail, Respond, Answer
  <2>5. CASE StartEdit(c) \/ ReadFile(c) \/ EmptyFile(c)
    BY <2>5 DEF StartEdit, Dispatch, ReadFile, EmptyFile
  <2>6. CASE WriteFile(c) \/ EditRaises(c) \/ Evict(c)
    BY <2>6 DEF WriteFile, EditRaises, Evict, Respond
  <2>7. CASE EndConvert(c) \/ Reset(c)
    BY <2>7 DEF EndConvert, Respond, Reset
  <2> QED
    BY <1>2, <2>1, <2>2, <2>3, <2>4, <2>5, <2>6, <2>7 DEF CommandStep
<1>3. CASE EditByHand
  BY <1>3 DEF EditByHand
<1> QED
  BY <1>1, <1>2, <1>3 DEF Next, CommandStep

\* Who begins meets everybody.
LEMMA StepMet ==
    ASSUME Typed, MetInv, [Next]_vars
    PROVE  MetInv'
<1> USE DEF Typed, TypeOK, MetInv, Running
<1> None \notin Command \cup {"invalid", "internal", "unknown", "failed"}
  BY SessionAssumption
<1>1. CASE UNCHANGED vars
  BY <1>1 DEF vars
<1>2. ASSUME NEW c \in Command, CommandStep(c) PROVE MetInv'
  <2>1. CASE Create(c) \/ DropOther(c) \/ DropFailed(c)
    BY <2>1 DEF Create, Dispatch, DropOther, DropFailed, Meets
  <2>2. CASE Build(c) \/ BuildRaises(c) \/ Store(c)
    BY <2>2 DEF Build, BuildRaises, Fail, Respond, Store
  <2>3. CASE Note(c) \/ Created(c) \/ CreateRaises(c)
    BY <2>3 DEF Note, Created, CreateRaises, Fail, Respond
  <2>4. CASE Refuse(c) \/ Answer(c)
    BY <2>4 DEF Refuse, Fail, Respond, Answer
  <2>5. CASE StartEdit(c) \/ ReadFile(c) \/ EmptyFile(c)
    BY <2>5 DEF StartEdit, Dispatch, ReadFile, EmptyFile
  <2>6. CASE WriteFile(c) \/ EditRaises(c) \/ Evict(c)
    BY <2>6 DEF WriteFile, EditRaises, Evict, Respond
  <2>7. CASE EndConvert(c) \/ Reset(c)
    BY <2>7 DEF EndConvert, Respond, Reset, Meets
  <2> QED
    BY <1>2, <2>1, <2>2, <2>3, <2>4, <2>5, <2>6, <2>7 DEF CommandStep
<1>3. CASE EditByHand
  BY <1>3 DEF EditByHand
<1> QED
  BY <1>1, <1>2, <1>3 DEF Next, CommandStep

\* Versions only grow.
LEMMA StepVersions ==
    ASSUME Typed, TurnsInv, StoredInv, VersionsInv, [Next]_vars
    PROVE  VersionsInv'
<1> USE DEF Typed, TypeOK, TurnsInv, StoredInv, VersionsInv, Stored, FolderOf, Dispatched
<1> None \notin Command \cup {"invalid", "internal", "unknown", "failed"}
  BY SessionAssumption
<1> \A d \in Command : setting.folder[d] \in Folder /\ setting.config[d] \in Config
  BY SessionAssumption DEF SettingOK
<1>1. CASE UNCHANGED vars
  BY <1>1 DEF vars
<1>2. ASSUME NEW c \in Command, CommandStep(c) PROVE VersionsInv'
  <2>1. CASE Create(c)
    BY <2>1 DEF Create, Dispatch
  <2>2. CASE DropOther(c)
    BY <2>2 DEF DropOther
  <2>3. CASE DropFailed(c)
    <3>1. /\ UNCHANGED <<setting, built, file, began, edited, owed>>
          /\ pc'[c] \in {"made", "build"} /\ \A d \in Command : d # c => pc'[d] = pc[d]
      BY <2>3 DEF DropFailed
    <3>2. \A f \in Folder : contexts'[f] # None => contexts'[f] = contexts[f]
      BY <2>3 DEF DropFailed
    <3>3. contexts'[FolderOf(c)] # None => built[contexts'[FolderOf(c)]].loaded
      BY <2>3 DEF DropFailed
    <3> QED
      BY <3>1, <3>2, <3>3
  <2>4. CASE Build(c)
    BY <2>4 DEF Build
  <2>5. CASE BuildRaises(c)
    BY <2>5 DEF BuildRaises, Fail, Respond
  <2>6. CASE Store(c)
    BY <2>6 DEF Store
  <2>7. CASE Note(c)
    BY <2>7 DEF Note
  <2>8. CASE Created(c)
    BY <2>8 DEF Created
  <2>9. CASE CreateRaises(c)
    BY <2>9 DEF CreateRaises, Fail, Respond
  <2>10. CASE Refuse(c)
    BY <2>10 DEF Refuse, Fail, Respond
  <2>11. CASE Answer(c)
    BY <2>11 DEF Answer, Respond
  <2>12. CASE StartEdit(c)
    BY <2>12 DEF StartEdit, Dispatch
  <2>13. CASE ReadFile(c)
    BY <2>13 DEF ReadFile
  <2>14. CASE EmptyFile(c)
    BY <2>14 DEF EmptyFile
  <2>15. CASE WriteFile(c)
    BY <2>15 DEF WriteFile
  <2>16. CASE EditRaises(c)
    BY <2>16 DEF EditRaises
  <2>17. CASE Evict(c)
    BY <2>17 DEF Evict, Respond
  <2>18. CASE EndConvert(c)
    BY <2>18 DEF EndConvert, Respond
  <2>19. CASE Reset(c)
    BY <2>19 DEF Reset, Respond
  <2> QED
    BY <1>2, <2>1, <2>2, <2>3, <2>4, <2>5, <2>6, <2>7, <2>8, <2>9, <2>10, <2>11,
       <2>12, <2>13, <2>14, <2>15, <2>16, <2>17, <2>18, <2>19 DEF CommandStep
<1>3. CASE EditByHand
  BY <1>3 DEF EditByHand
<1> QED
  BY <1>1, <1>2, <1>3 DEF Next, CommandStep

\* A context is noted with what it was built with.
LEMMA StepConfigs ==
    ASSUME Typed, TurnsInv, StoredInv, MetInv, ConfigsInv, [Next]_vars
    PROVE  ConfigsInv'
<1> USE DEF Typed, TypeOK, TurnsInv, StoredInv, MetInv, ConfigsInv, Running, RivalOf,
      Stored, FolderOf, ConfigOf, Dispatched
<1> None \notin Command \cup {"invalid", "internal", "unknown", "failed"}
  BY SessionAssumption
<1> \A d \in Command : setting.folder[d] \in Folder /\ setting.config[d] \in Config
  BY SessionAssumption DEF SettingOK
<1>1. CASE UNCHANGED vars
  BY <1>1 DEF vars
<1>2. ASSUME NEW c \in Command, CommandStep(c) PROVE ConfigsInv'
  <2>1. CASE Create(c)
    BY <2>1 DEF Create, Dispatch, Meets
  <2>2. CASE DropOther(c)
    BY <2>2 DEF DropOther
  <2>3. CASE DropFailed(c)
    <3>1. /\ pc[c] = "check" /\ UNCHANGED <<setting, turn, configs, built, met>>
          /\ \/ contexts' = contexts /\ contexts[FolderOf(c)] # None
                /\ pc' = [pc EXCEPT ![c] = "made"]
             \/ /\ contexts' = [contexts EXCEPT ![FolderOf(c)] = None]
                /\ pc' = [pc EXCEPT ![c] = "build"]
      <4> DEFINE warm == contexts[FolderOf(c)]
      <4>1. CASE warm # None /\ built[warm].loaded
        BY <2>3, <4>1 DEF DropFailed
      <4>2. CASE ~(warm # None /\ built[warm].loaded)
        BY <2>3, <4>2 DEF DropFailed
      <4> QED
        BY <4>1, <4>2
    <3> QED
      BY <3>1
  <2>4. CASE Build(c)
    BY <2>4 DEF Build
  <2>5. CASE BuildRaises(c)
    BY <2>5 DEF BuildRaises, Fail, Respond
  <2>6. CASE Store(c)
    BY <2>6 DEF Store
  <2>7. CASE Note(c)
    BY <2>7 DEF Note
  <2>8. CASE Created(c)
    BY <2>8 DEF Created
  <2>9. CASE CreateRaises(c)
    BY <2>9 DEF CreateRaises, Fail, Respond
  <2>10. CASE Refuse(c)
    BY <2>10 DEF Refuse, Fail, Respond
  <2>11. CASE Answer(c)
    BY <2>11 DEF Answer, Respond
  <2>12. CASE StartEdit(c)
    BY <2>12 DEF StartEdit, Dispatch
  <2>13. CASE ReadFile(c)
    BY <2>13 DEF ReadFile
  <2>14. CASE EmptyFile(c)
    BY <2>14 DEF EmptyFile
  <2>15. CASE WriteFile(c)
    BY <2>15 DEF WriteFile
  <2>16. CASE EditRaises(c)
    BY <2>16 DEF EditRaises
  <2>17. CASE Evict(c)
    BY <2>17 DEF Evict, Respond
  <2>18. CASE EndConvert(c)
    BY <2>18 DEF EndConvert, Respond
  <2>19. CASE Reset(c)
    BY <2>19 DEF Reset, Respond, Meets
  <2> QED
    BY <1>2, <2>1, <2>2, <2>3, <2>4, <2>5, <2>6, <2>7, <2>8, <2>9, <2>10, <2>11,
       <2>12, <2>13, <2>14, <2>15, <2>16, <2>17, <2>18, <2>19 DEF CommandStep
<1>3. CASE EditByHand
  BY <1>3 DEF EditByHand
<1> QED
  BY <1>1, <1>2, <1>3 DEF Next, CommandStep

\* What a command may count on as a reason does not go away.
LEMMA ReasonStays ==
    ASSUME Typed, PathsInv, [Next]_vars, NEW d \in Command, pc[d] # "new", d \in Excused
    PROVE  d \in Excused'
<1>1. setting' = setting
  BY DEF Next, vars, Create, DropOther, DropFailed, Build, BuildRaises, Store, Note, Created,
         CreateRaises, Refuse, Answer, StartEdit, ReadFile, EmptyFile, WriteFile, EditRaises, Evict,
         EndConvert, Reset, EditByHand
<1>2. met[d] \subseteq met'[d]
  <2>1. CASE UNCHANGED met
    BY <2>1
  <2>2. ASSUME NEW c \in Command, Meets(c), pc[c] = "new" PROVE met[d] \subseteq met'[d]
    BY <2>2 DEF Meets, Typed, TypeOK
  <2> QED
    BY <2>1, <2>2 DEF Next, vars, Create, DropOther, DropFailed, Build, BuildRaises, Store, Note,
         Created, CreateRaises, Refuse, Answer, StartEdit, ReadFile, EmptyFile, WriteFile,
         EditRaises, Evict, EndConvert, Reset, EditByHand
<1>3. \A e \in Command : error[e] = "invalid" => error'[e] = "invalid"
  <2>1. CASE UNCHANGED error
    BY <2>1
  <2>2. ASSUME NEW c \in Command, NEW x, error' = [error EXCEPT ![c] = x],
               pc[c] \in {"build", "made", "created", "read", "write"}
        PROVE  \A e \in Command : error[e] = "invalid" => error'[e] = "invalid"
    BY <2>2, SessionAssumption DEF PathsInv, Typed, TypeOK
  <2> QED
    BY <2>1, <2>2 DEF Next, vars, Create, DropOther, DropFailed, Build, BuildRaises, Store, Note,
         Created, CreateRaises, Refuse, Answer, StartEdit, ReadFile, EmptyFile, WriteFile,
         EditRaises, Evict, EndConvert, Reset, EditByHand, Fail
<1> QED
  BY <1>1, <1>2, <1>3 DEF Excused, Does, FolderOf, ConfigOf, Evicts, Typed, TypeOK

\* A context goes for a reason.
LEMMA StepEvicted ==
    ASSUME Typed, TurnsInv, PathsInv, StoredInv, MetInv, ConfigsInv, EvictedInv, [Next]_vars
    PROVE  EvictedInv'
<1> USE DEF Typed, TypeOK, TurnsInv, PathsInv, StoredInv, MetInv, ConfigsInv, EvictedInv,
      Running, RivalOf, Stored, FolderOf, ConfigOf, Dispatched
<1> None \notin Command \cup {"invalid", "internal", "unknown", "failed"}
  BY SessionAssumption
<1> \A d \in Command : setting.folder[d] \in Folder /\ setting.config[d] \in Config
  BY SessionAssumption DEF SettingOK
<1> \A d \in Command : pc[d] # "new" /\ d \in Excused => d \in Excused'
  BY ReasonStays
<1>1. CASE UNCHANGED vars
  BY <1>1 DEF vars
<1>2. ASSUME NEW c \in Command, CommandStep(c) PROVE EvictedInv'
  <2>1. CASE Create(c)
    BY <2>1 DEF Create, Dispatch
  <2>2. CASE DropOther(c)
    <3>1. ASSUME NEW d \in Command, pc[d] = "created", FolderOf(d) = FolderOf(c),
                 contexts[FolderOf(c)] # None, configs[FolderOf(c)] # ConfigOf(c)
          PROVE  d \in Excused
      <4>1. c \in met[d]
        BY <2>2, <3>1 DEF DropOther
      <4>2. CASE ConfigOf(c) # ConfigOf(d)
        BY <3>1, <4>1, <4>2 DEF Excused
      <4>3. CASE ConfigOf(c) = ConfigOf(d)
        <5>1. RivalOf(d)
          BY <2>2, <3>1, <4>3 DEF DropOther
        <5> QED
          BY <5>1 DEF Excused
      <4> QED
        BY <4>2, <4>3
    <3> QED
      BY <2>2, <3>1 DEF DropOther
  <2>3. CASE DropFailed(c)
    BY <2>3 DEF DropFailed
  <2>4. CASE Build(c)
    BY <2>4, SMTT(30) DEF Build
  <2>5. CASE BuildRaises(c)
    <3>1. \A d \in Command : pc'[d] = "created" /\ FolderOf(d) = FolderOf(c) => d \in Excused'
      BY <2>5 DEF BuildRaises, Fail, Respond, Excused, Evicts, Does
    <3> QED
      BY <2>5, <3>1 DEF BuildRaises, Fail, Respond
  <2>6. CASE Store(c)
    BY <2>6 DEF Store
  <2>7. CASE Note(c)
    BY <2>7 DEF Note
  <2>8. CASE Created(c)
    BY <2>8 DEF Created
  <2>9. CASE CreateRaises(c)
    BY <2>9 DEF CreateRaises, Fail, Respond
  <2>10. CASE Refuse(c)
    <3>1. c \in Excused
      BY <2>10 DEF Refuse
    <3> QED
      BY <2>10, <3>1 DEF Refuse, Fail, Respond
  <2>11. CASE Answer(c)
    BY <2>11 DEF Answer, Respond
  <2>12. CASE StartEdit(c)
    BY <2>12 DEF StartEdit, Dispatch
  <2>13. CASE ReadFile(c)
    BY <2>13 DEF ReadFile
  <2>14. CASE EmptyFile(c)
    BY <2>14 DEF EmptyFile
  <2>15. CASE WriteFile(c)
    BY <2>15 DEF WriteFile
  <2>16. CASE EditRaises(c)
    BY <2>16 DEF EditRaises
  <2>17. CASE Evict(c)
    <3>1. \A d \in Command : pc'[d] = "created" /\ FolderOf(d) = FolderOf(c) => d \in Excused'
      BY <2>17 DEF Evict, Respond, Excused, Evicts, Does
    <3> QED
      BY <2>17, <3>1 DEF Evict, Respond
  <2>18. CASE EndConvert(c)
    BY <2>18 DEF EndConvert, Respond
  <2>19. CASE Reset(c)
    <3>1. \A d \in Command : pc'[d] = "created" => d \in Excused'
      BY <2>19 DEF Reset, Respond, Meets, Excused, Does
    <3> QED
      BY <2>19, <3>1 DEF Reset, Respond
  <2> QED
    BY <1>2, <2>1, <2>2, <2>3, <2>4, <2>5, <2>6, <2>7, <2>8, <2>9, <2>10, <2>11,
       <2>12, <2>13, <2>14, <2>15, <2>16, <2>17, <2>18, <2>19 DEF CommandStep
<1>3. CASE EditByHand
  BY <1>3 DEF EditByHand
<1> QED
  BY <1>1, <1>2, <1>3 DEF Next, CommandStep

\* An edit keeps what others have written.
LEMMA StepWritten ==
    ASSUME Typed, TurnsInv, PathsInv, StoredInv, WrittenInv, [Next]_vars
    PROVE  WrittenInv'
<1> USE DEF Typed, TypeOK, TurnsInv, PathsInv, StoredInv, WrittenInv, Written, Edits, Does,
      Stored, Dispatched
<1> None \notin Command \cup {"invalid", "internal", "unknown", "failed"}
  BY SessionAssumption
<1> \A d \in Command : setting.folder[d] \in Folder /\ setting.config[d] \in Config
  BY SessionAssumption DEF SettingOK
<1>1. CASE UNCHANGED vars
  BY <1>1 DEF vars
<1>2. ASSUME NEW c \in Command, CommandStep(c) PROVE WrittenInv'
  <2>1. CASE Create(c)
    BY <2>1 DEF Create, Dispatch
  <2>2. CASE DropOther(c)
    BY <2>2 DEF DropOther
  <2>3. CASE DropFailed(c)
    BY <2>3 DEF DropFailed
  <2>4. CASE Build(c)
    BY <2>4 DEF Build
  <2>5. CASE BuildRaises(c)
    BY <2>5 DEF BuildRaises, Fail, Respond
  <2>6. CASE Store(c)
    BY <2>6 DEF Store
  <2>7. CASE Note(c)
    BY <2>7 DEF Note
  <2>8. CASE Created(c)
    BY <2>8 DEF Created
  <2>9. CASE CreateRaises(c)
    BY <2>9 DEF CreateRaises, Fail, Respond
  <2>10. CASE Refuse(c)
    BY <2>10 DEF Refuse, Fail, Respond
  <2>11. CASE Answer(c)
    BY <2>11 DEF Answer, Respond
  <2>12. CASE StartEdit(c)
    BY <2>12 DEF StartEdit, Dispatch
  <2>13. CASE ReadFile(c)
    BY <2>13 DEF ReadFile
  <2>14. CASE EmptyFile(c)
    BY <2>14 DEF EmptyFile
  <2>15. CASE WriteFile(c)
    BY <2>15 DEF WriteFile
  <2>16. CASE EditRaises(c)
    <3> SUFFICES ASSUME setting.failing = {} PROVE WrittenInv'
      BY <2>16 DEF EditRaises
    <3>1. pc[c] = "read" /\ UNCHANGED <<file, base, serving, built>> /\ error[c] = None
      BY <2>16 DEF EditRaises
    <3>2. c \notin Written' /\ c \notin Written
      BY <2>16, <3>1 DEF EditRaises
    <3>3. \A d \in Command : d \in Written' => d \in Written
      BY <2>16, <3>1, <3>2 DEF EditRaises
    <3> QED
      BY <2>16, <3>1, <3>3 DEF EditRaises
  <2>17. CASE Evict(c)
    BY <2>17 DEF Evict, Respond
  <2>18. CASE EndConvert(c)
    BY <2>18 DEF EndConvert, Respond
  <2>19. CASE Reset(c)
    BY <2>19 DEF Reset, Respond
  <2> QED
    BY <1>2, <2>1, <2>2, <2>3, <2>4, <2>5, <2>6, <2>7, <2>8, <2>9, <2>10, <2>11,
       <2>12, <2>13, <2>14, <2>15, <2>16, <2>17, <2>18, <2>19 DEF CommandStep
<1>3. CASE EditByHand
  BY <1>3 DEF EditByHand
<1> QED
  BY <1>1, <1>2, <1>3 DEF Next, CommandStep

\* A context that serves a command stays what it was built as.
LEMMA StepFresh ==
    ASSUME Typed, StoredInv, VersionsInv, AnswersAreFresh, [Next]_vars
    PROVE  AnswersAreFresh'
<1> USE DEF Typed, TypeOK, StoredInv, VersionsInv, AnswersAreFresh, Stored, FolderOf
<1> None \notin Command \cup {"invalid", "internal", "unknown", "failed"}
  BY SessionAssumption
<1> \A d \in Command : setting.folder[d] \in Folder /\ setting.config[d] \in Config
  BY SessionAssumption DEF SettingOK
<1>1. CASE UNCHANGED vars
  BY <1>1 DEF vars
<1>2. ASSUME NEW c \in Command, CommandStep(c) PROVE AnswersAreFresh'
  <2>1. CASE Create(c)
    BY <2>1 DEF Create, Dispatch
  <2>2. CASE DropOther(c)
    BY <2>2 DEF DropOther
  <2>3. CASE DropFailed(c)
    BY <2>3 DEF DropFailed
  <2>4. CASE Build(c)
    BY <2>4 DEF Build
  <2>5. CASE BuildRaises(c)
    BY <2>5 DEF BuildRaises, Fail, Respond
  <2>6. CASE Store(c)
    BY <2>6 DEF Store
  <2>7. CASE Note(c)
    BY <2>7 DEF Note
  <2>8. CASE Created(c)
    BY <2>8 DEF Created
  <2>9. CASE CreateRaises(c)
    BY <2>9 DEF CreateRaises, Fail, Respond
  <2>10. CASE Refuse(c)
    BY <2>10 DEF Refuse, Fail, Respond
  <2>11. CASE Answer(c)
    <3> DEFINE warm == contexts[FolderOf(c)]
    <3>1. pc[c] = "created" /\ warm # None /\ serving' = [serving EXCEPT ![c] = warm]
      BY <2>11 DEF Answer
    <3>2. warm \in Command /\ built[warm] \in Context /\ edited[FolderOf(c)] \in Nat
      BY <3>1
    <3>3. built[warm].version \in Nat /\ owed[c] \in Nat /\ began[c] \in Nat
      BY <3>2 DEF Context
    <3>4. /\ built[warm].version >= owed[c]
          /\ ~built[warm].loaded => built[warm].version >= began[c]
      BY <3>1, <3>2, <3>3
    <3> QED
      BY <2>11, <3>1, <3>4 DEF Answer, Respond
  <2>12. CASE StartEdit(c)
    <3> DEFINE warm == contexts[FolderOf(c)]
    <3>1. pc[c] = "created" /\ warm # None /\ serving' = [serving EXCEPT ![c] = warm]
      BY <2>12 DEF StartEdit
    <3>2. warm \in Command /\ built[warm] \in Context /\ edited[FolderOf(c)] \in Nat
      BY <3>1
    <3>3. built[warm].version \in Nat /\ owed[c] \in Nat /\ began[c] \in Nat
      BY <3>2 DEF Context
    <3>4. /\ built[warm].version >= owed[c]
          /\ ~built[warm].loaded => built[warm].version >= began[c]
      BY <3>1, <3>2, <3>3
    <3> QED
      BY <2>12, <3>1, <3>4 DEF StartEdit, Dispatch
  <2>13. CASE ReadFile(c)
    BY <2>13 DEF ReadFile
  <2>14. CASE EmptyFile(c)
    BY <2>14 DEF EmptyFile
  <2>15. CASE WriteFile(c)
    BY <2>15 DEF WriteFile
  <2>16. CASE EditRaises(c)
    BY <2>16 DEF EditRaises
  <2>17. CASE Evict(c)
    BY <2>17 DEF Evict, Respond
  <2>18. CASE EndConvert(c)
    BY <2>18 DEF EndConvert, Respond
  <2>19. CASE Reset(c)
    BY <2>19 DEF Reset, Respond
  <2> QED
    BY <1>2, <2>1, <2>2, <2>3, <2>4, <2>5, <2>6, <2>7, <2>8, <2>9, <2>10, <2>11,
       <2>12, <2>13, <2>14, <2>15, <2>16, <2>17, <2>18, <2>19 DEF CommandStep
<1>3. CASE EditByHand
  BY <1>3 DEF EditByHand
<1> QED
  BY <1>1, <1>2, <1>3 DEF Next, CommandStep

\* A rival that was met stays met.
LEMMA StepOwn ==
    ASSUME Typed, StoredInv, ConfigsInv, OwnConfiguration, [Next]_vars
    PROVE  OwnConfiguration'
<1> USE DEF Typed, TypeOK, StoredInv, ConfigsInv, OwnConfiguration, Stored, FolderOf,
      ConfigOf, RivalOf
<1> None \notin Command \cup {"invalid", "internal", "unknown", "failed"}
  BY SessionAssumption
<1> \A d \in Command : setting.folder[d] \in Folder /\ setting.config[d] \in Config
  BY SessionAssumption DEF SettingOK
<1>1. CASE UNCHANGED vars
  BY <1>1 DEF vars
<1>2. ASSUME NEW c \in Command, CommandStep(c) PROVE OwnConfiguration'
  <2>1. CASE Create(c)
    BY <2>1 DEF Create, Dispatch, Meets
  <2>2. CASE DropOther(c)
    BY <2>2 DEF DropOther
  <2>3. CASE DropFailed(c)
    BY <2>3 DEF DropFailed
  <2>4. CASE Build(c)
    BY <2>4 DEF Build
  <2>5. CASE BuildRaises(c)
    BY <2>5 DEF BuildRaises, Fail, Respond
  <2>6. CASE Store(c)
    BY <2>6 DEF Store
  <2>7. CASE Note(c)
    BY <2>7 DEF Note
  <2>8. CASE Created(c)
    BY <2>8 DEF Created
  <2>9. CASE CreateRaises(c)
    BY <2>9 DEF CreateRaises, Fail, Respond
  <2>10. CASE Refuse(c)
    BY <2>10 DEF Refuse, Fail, Respond
  <2>11. CASE Answer(c)
    BY <2>11 DEF Answer, Respond
  <2>12. CASE StartEdit(c)
    BY <2>12 DEF StartEdit, Dispatch
  <2>13. CASE ReadFile(c)
    BY <2>13 DEF ReadFile
  <2>14. CASE EmptyFile(c)
    BY <2>14 DEF EmptyFile
  <2>15. CASE WriteFile(c)
    BY <2>15 DEF WriteFile
  <2>16. CASE EditRaises(c)
    BY <2>16 DEF EditRaises
  <2>17. CASE Evict(c)
    BY <2>17 DEF Evict, Respond
  <2>18. CASE EndConvert(c)
    BY <2>18 DEF EndConvert, Respond
  <2>19. CASE Reset(c)
    BY <2>19 DEF Reset, Respond, Meets
  <2> QED
    BY <1>2, <2>1, <2>2, <2>3, <2>4, <2>5, <2>6, <2>7, <2>8, <2>9, <2>10, <2>11,
       <2>12, <2>13, <2>14, <2>15, <2>16, <2>17, <2>18, <2>19 DEF CommandStep
<1>3. CASE EditByHand
  BY <1>3 DEF EditByHand
<1> QED
  BY <1>1, <1>2, <1>3 DEF Next, CommandStep

-----------------------------------------------------------------------------
(* The theorems                                                            *)

\* What every reachable state satisfies.
IInv ==
    /\ Typed /\ TurnsInv /\ PathsInv /\ StoredInv /\ VersionsInv /\ MetInv /\ ConfigsInv
    /\ EvictedInv /\ WrittenInv /\ AnswersAreFresh /\ OwnConfiguration

\* At first nothing is stored and nobody is going on.
LEMMA InitTypes == Init => TypeOK
BY SessionAssumption DEF Init, TypeOK, Context, FileStates, NoContext, SettingOK

\* And all of it holds.
LEMMA InitIInv == Serial /\ Init => IInv
<1> SUFFICES ASSUME Serial, Init PROVE IInv
  OBVIOUS
<1>1. Typed
  BY InitTypes DEF Serial, Init, Typed
<1>2. TurnsInv /\ PathsInv /\ StoredInv /\ MetInv /\ ConfigsInv
  BY <1>1, SettingTypes DEF Init, TurnsInv, PathsInv, StoredInv, MetInv, ConfigsInv, Running,
     Dispatched, Stored, Typed, TypeOK
<1>3. VersionsInv /\ EvictedInv /\ WrittenInv
  BY <1>1, SettingTypes, SessionAssumption DEF Init, VersionsInv, EvictedInv, WrittenInv, Written,
     Typed, TypeOK
<1>4. AnswersAreFresh /\ OwnConfiguration
  BY DEF Init, AnswersAreFresh, OwnConfiguration
<1> QED
  BY <1>1, <1>2, <1>3, <1>4 DEF IInv

\* Every step keeps it all.
LEMMA StepIInv == IInv /\ [Next]_vars => IInv'
<1> SUFFICES ASSUME IInv, [Next]_vars PROVE IInv'
  OBVIOUS
<1>1. Typed'
  <2>1. setting' = setting
    BY DEF Next, vars, Create, DropOther, DropFailed, Build, BuildRaises, Store, Note, Created,
           CreateRaises, Refuse, Answer, StartEdit, ReadFile, EmptyFile, WriteFile, EditRaises,
           Evict, EndConvert, Reset, EditByHand
  <2> QED
    BY <2>1, StepTypes DEF IInv, Typed
<1>2. TurnsInv' /\ PathsInv' /\ StoredInv' /\ VersionsInv' /\ MetInv'
  BY StepTurns, StepPaths, StepStored, StepVersions, StepMet DEF IInv
<1>3. ConfigsInv' /\ EvictedInv' /\ WrittenInv'
  BY StepConfigs, StepEvicted, StepWritten DEF IInv
<1>4. AnswersAreFresh' /\ OwnConfiguration'
  BY StepFresh, StepOwn DEF IInv
<1> QED
  BY <1>1, <1>2, <1>3, <1>4 DEF IInv

\* So it holds of every reachable state.
LEMMA Invariance == Serial /\ Spec => []IInv
<1>1. ASSUME Serial PROVE Spec => []IInv
  BY <1>1, InitIInv, StepIInv, PTL DEF Spec
<1> QED
  BY <1>1

\* The state is well typed, and its versions are numbers.
THEOREM TypeCorrect == Serial /\ Spec => []TypeOK
<1>1. IInv => TypeOK
  BY DEF IInv, Typed
<1> QED
  BY <1>1, Invariance, PTL

\* A command is served by a context that has read what was in the file when its folder's context
\* was last evicted before it began, whatever is edited, rebuilt or mended in between.
THEOREM AnswersHaveEveryEdit == Serial /\ Spec => []AnswersAreFresh
<1>1. IInv => AnswersAreFresh
  BY DEF IInv
<1> QED
  BY <1>1, Invariance, PTL

\* A command that no other configuration runs beside is served by a context of its own.
THEOREM AnswersAreOnesOwn == Serial /\ Spec => []OwnConfiguration
<1>1. IInv => OwnConfiguration
  BY DEF IInv
<1> QED
  BY <1>1, Invariance, PTL

\* A command is refused only if another one that was going on took its context away.
THEOREM RefusalsHaveReasons == Serial /\ Spec => []RefusedForAReason
<1>1. IInv => RefusedForAReason
  BY DEF IInv, EvictedInv, Excused, RefusedForAReason
<1> QED
  BY <1>1, Invariance, PTL

\* As long as no edit fails half way, no edit of the file undoes another one.
THEOREM NoEditIsLost == Serial /\ Spec => []EditsAreKept
<1>1. IInv => EditsAreKept
  BY DEF IInv, WrittenInv, Written, EditsAreKept
<1> QED
  BY <1>1, Invariance, PTL
=============================================================================
