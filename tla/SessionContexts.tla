-------------------------- MODULE SessionContexts --------------------------
(***************************************************************************)
(* The contexts that one daemon keeps warm for its workspace, and the      *)
(* commands that use them (operations.py, session.py).  A command of the   *)
(* command line sends two requests: context.create, with the folder it     *)
(* runs in and its user's configuration, whose answer is an id that stands *)
(* for the folder; and the operation itself, with that id.  An operation   *)
(* that edits the package rewrites partcad.yaml, and add_object and        *)
(* import_object then drop the context of their id; convert_object does    *)
(* not.  daemon_reset drops them all.                                      *)
(*                                                                         *)
(* Over a socket or stdio one request is dispatched at a time              *)
(* (socket_server.py), over HTTP they are dispatched at once (http.py).    *)
(* A context is named after the command whose request built it.            *)
(*                                                                         *)
(* Left out: the context of requests that carry no id, and the operations  *)
(* that take no context or leave contexts and files alone, which are all   *)
(* the same reader here.                                                   *)
(***************************************************************************)
EXTENDS Naturals

CONSTANTS
    Command,
    Folder,         \* the folders of the workspace that commands are run in
    Config,         \* user configurations
    Setting,        \* what there may be to do, see SettingOK
    MaxByHand,      \* how often the author edits the file, at most
    None

Kinds == {"read", "add", "convert", "reset"}
FileStates == {"good", "missing", "garbled"}

\* does:    what a command is for, if there is such a command
\* failing: the commands whose writing of the file may fail
\* file:    what partcad.yaml is like at first
\* http:    whether requests are dispatched at once
SettingOK(s) ==
    /\ s.does \in [Command -> Kinds \cup {None}]
    /\ s.folder \in [Command -> Folder] /\ s.config \in [Command -> Config]
    /\ s.failing \subseteq Command
    /\ s.file \in FileStates
    /\ s.http \in BOOLEAN

ASSUME SessionAssumption ==
    /\ MaxByHand \in Nat
    /\ None \notin Command \cup Kinds \cup Config \cup {"invalid", "internal", "unknown", "failed"}
    /\ \A s \in Setting : SettingOK(s)

VARIABLES
    setting,
    pc,             \* how far each command is
    turn,           \* the command that has the dispatch lock
    contexts,       \* Session.contexts: of each folder, the context, named after its builder
    configs,        \* Session.context_user_configs
    built,          \* of each command, the context that it built
    serving,        \* the context that served the command's operation
    error,          \* the error that the command got
    file,           \* partcad.yaml: its state, version, and the edits that it holds
    base,           \* the edits in the file as an edit has read it
    byHand,         \* how often the author has edited the file
    began,          \* the version at which the command began
    edited,         \* of each folder, the version in the file when its context was last evicted
    owed,           \* that version, as it was when the command began
    met             \* the commands that were going on during this one

vars == <<setting, pc, turn, contexts, configs, built, serving, error, file, base, byHand,
          began, edited, owed, met>>

----------------------------------------------------------------------------
Does(c) == setting.does[c]
FolderOf(c) == setting.folder[c]
ConfigOf(c) == setting.config[c]
Edits(c) == Does(c) \in {"add", "convert"}
\* add_object and import_object end in _invalidate_context, convert_object does not.
Evicts(c) == Does(c) = "add"
Running == {c \in Command : pc[c] \notin {"new", "over"}}

NoContext == [loaded |-> FALSE, version |-> 0, config |-> None]

Init ==
    /\ setting \in Setting
    /\ pc = [c \in Command |-> "new"]
    /\ turn = None
    /\ contexts = [f \in Folder |-> None]
    /\ configs = [f \in Folder |-> None]
    /\ built = [c \in Command |-> NoContext]
    /\ serving = [c \in Command |-> None]
    /\ error = [c \in Command |-> None]
    /\ file = [state |-> setting.file, version |-> 0, edits |-> {}]
    /\ base = [c \in Command |-> {}]
    /\ byHand = 0
    /\ began = [c \in Command |-> 0]
    /\ edited = [f \in Folder |-> 0]
    /\ owed = [c \in Command |-> 0]
    /\ met = [c \in Command |-> {}]

\* A request of c is dispatched; it has the lock until Respond.
Dispatch(c) ==
    /\ turn = None
    /\ turn' = IF setting.http THEN None ELSE c

Respond(c) ==
    /\ pc' = [pc EXCEPT ![c] = "over"]
    /\ turn' = None

Fail(c, e) ==
    /\ error' = [error EXCEPT ![c] = e]
    /\ Respond(c)

\* For the properties: what the command may count on, and whom it runs beside.
Meets(c) ==
    met' = [d \in Command |->
        IF d = c THEN Running ELSE IF d \in Running THEN met[d] \cup {c} ELSE met[d]]

----------------------------------------------------------------------------
(* context.create *)

Create(c) ==
    /\ pc[c] = "new" /\ Does(c) \notin {"reset", None}
    /\ Dispatch(c)
    /\ pc' = [pc EXCEPT ![c] = "compare"]
    /\ began' = [began EXCEPT ![c] = file.version]
    /\ owed' = [owed EXCEPT ![c] = edited[FolderOf(c)]]
    /\ Meets(c)
    /\ UNCHANGED <<setting, contexts, configs, built, serving, error, file, base, byHand, edited>>

\* A context of another configuration is dropped.
DropOther(c) ==
    /\ pc[c] = "compare"
    /\ contexts' = [contexts EXCEPT ![FolderOf(c)] =
           IF configs[FolderOf(c)] = ConfigOf(c) THEN @ ELSE None]
    /\ pc' = [pc EXCEPT ![c] = "check"]
    /\ UNCHANGED <<setting, turn, configs, built, serving, error, file, base, byHand,
                   began, edited, owed, met>>

\* So is one whose root package did not load; what is left is used again.
DropFailed(c) ==
    LET warm == contexts[FolderOf(c)]
        isUsable == warm # None /\ built[warm].loaded
    IN  /\ pc[c] = "check"
        /\ contexts' = [contexts EXCEPT ![FolderOf(c)] = IF isUsable THEN warm ELSE None]
        /\ pc' = [pc EXCEPT ![c] = IF isUsable THEN "made" ELSE "build"]
        /\ UNCHANGED <<setting, turn, configs, built, serving, error, file, base, byHand,
                       began, edited, owed, met>>

\* The constructor of the context reads the file.
Build(c) ==
    /\ pc[c] = "build" /\ file.state # "garbled"
    /\ built' = [built EXCEPT ![c] =
           [loaded |-> file.state = "good", version |-> file.version, config |-> ConfigOf(c)]]
    /\ pc' = [pc EXCEPT ![c] = "store"]
    /\ UNCHANGED <<setting, turn, contexts, configs, serving, error, file, base, byHand,
                   began, edited, owed, met>>

BuildRaises(c) ==
    /\ pc[c] = "build" /\ file.state = "garbled"
    /\ Fail(c, "invalid")
    /\ UNCHANGED <<setting, contexts, configs, built, serving, file, base, byHand,
                   began, edited, owed, met>>

Store(c) ==
    /\ pc[c] = "store"
    /\ contexts' = [contexts EXCEPT ![FolderOf(c)] = c]
    /\ pc' = [pc EXCEPT ![c] = "note"]
    /\ UNCHANGED <<setting, turn, configs, built, serving, error, file, base, byHand,
                   began, edited, owed, met>>

NoteOnce(c) ==
    /\ pc[c] = "note"
    /\ configs' = [configs EXCEPT ![FolderOf(c)] = IF @ = None THEN ConfigOf(c) ELSE @]
    /\ pc' = [pc EXCEPT ![c] = "made"]
    /\ UNCHANGED <<setting, turn, contexts, built, serving, error, file, base, byHand,
                   began, edited, owed, met>>

Note(c) ==
    /\ pc[c] = "note"
    /\ configs' = [configs EXCEPT ![FolderOf(c)] = ConfigOf(c)]
    /\ pc' = [pc EXCEPT ![c] = "made"]
    /\ UNCHANGED <<setting, turn, contexts, built, serving, error, file, base, byHand,
                   began, edited, owed, met>>

\* The context is looked up once more before the id is returned.
Created(c) ==
    /\ pc[c] = "made" /\ contexts[FolderOf(c)] # None
    /\ pc' = [pc EXCEPT ![c] = "created"]
    /\ turn' = None
    /\ UNCHANGED <<setting, contexts, configs, built, serving, error, file, base, byHand,
                   began, edited, owed, met>>

CreateRaises(c) ==
    /\ pc[c] = "made" /\ contexts[FolderOf(c)] = None
    /\ Fail(c, "internal")
    /\ UNCHANGED <<setting, contexts, configs, built, serving, file, base, byHand,
                   began, edited, owed, met>>

----------------------------------------------------------------------------
(* The operation *)

\* _ctx finds no context of this id.
Refuse(c) ==
    /\ pc[c] = "created" /\ turn = None
    /\ contexts[FolderOf(c)] = None
    /\ Fail(c, "unknown")
    /\ UNCHANGED <<setting, contexts, configs, built, serving, file, base, byHand,
                   began, edited, owed, met>>

\* An operation that edits nothing, or does not find its package.
Answer(c) ==
    LET warm == contexts[FolderOf(c)]
    IN  /\ pc[c] = "created" /\ turn = None
        /\ warm # None /\ (Edits(c) => ~built[warm].loaded)
        /\ serving' = [serving EXCEPT ![c] = warm]
        /\ Respond(c)
        /\ UNCHANGED <<setting, contexts, configs, built, error, file, base, byHand,
                       began, edited, owed, met>>

StartEditUnlocked(c) ==
    LET warm == contexts[FolderOf(c)]
    IN  /\ pc[c] = "created"
        /\ warm # None /\ Edits(c) /\ built[warm].loaded
        /\ serving' = [serving EXCEPT ![c] = warm]
        /\ pc' = [pc EXCEPT ![c] = "read"]
        /\ UNCHANGED <<setting, turn, contexts, configs, built, error, file, base, byHand,
                       began, edited, owed, met>>

StartEdit(c) ==
    LET warm == contexts[FolderOf(c)]
    IN  /\ pc[c] = "created" /\ Dispatch(c)
        /\ warm # None /\ Edits(c) /\ built[warm].loaded
        /\ serving' = [serving EXCEPT ![c] = warm]
        /\ pc' = [pc EXCEPT ![c] = "read"]
        /\ UNCHANGED <<setting, contexts, configs, built, error, file, base, byHand,
                       began, edited, owed, met>>

\* add_object_config: the file is read, opened for writing, which empties it, and written.
ReadFile(c) ==
    /\ pc[c] = "read" /\ file.state = "good"
    /\ base' = [base EXCEPT ![c] = file.edits]
    /\ pc' = [pc EXCEPT ![c] = "empty"]
    /\ UNCHANGED <<setting, turn, contexts, configs, built, serving, error, file, byHand,
                   began, edited, owed, met>>

EmptyFile(c) ==
    /\ pc[c] = "empty"
    /\ file' = [state |-> "good", version |-> file.version + 1, edits |-> {}]
    /\ pc' = [pc EXCEPT ![c] = "write"]
    /\ UNCHANGED <<setting, turn, contexts, configs, built, serving, error, base, byHand,
                   began, edited, owed, met>>

WriteFile(c) ==
    /\ pc[c] = "write"
    /\ file' = [state |-> "good", version |-> file.version + 1, edits |-> base[c] \cup {c}]
    /\ pc' = [pc EXCEPT ![c] = IF Evicts(c) THEN "evict" ELSE "edited"]
    /\ UNCHANGED <<setting, turn, contexts, configs, built, serving, error, base, byHand,
                   began, edited, owed, met>>

\* The edit raises: the file cannot be read, or only a part of it is written.
EditRaises(c) ==
    /\ \/ pc[c] = "read" /\ file.state # "good"
          /\ UNCHANGED file
       \/ pc[c] = "write" /\ c \in setting.failing
          /\ \E s \in {"good", "garbled"} : file' = [file EXCEPT !.state = s]
    /\ error' = [error EXCEPT ![c] = "failed"]
    /\ pc' = [pc EXCEPT ![c] = IF Evicts(c) THEN "evict" ELSE "edited"]
    /\ UNCHANGED <<setting, turn, contexts, configs, built, serving, base, byHand,
                   began, edited, owed, met>>

EvictOnSuccess(c) ==
    /\ pc[c] = "evict"
    /\ contexts' = [contexts EXCEPT ![FolderOf(c)] = IF error[c] = None THEN None ELSE @]
    /\ configs' = [configs EXCEPT ![FolderOf(c)] = IF error[c] = None THEN None ELSE @]
    /\ edited' = [edited EXCEPT ![FolderOf(c)] = file.version]
    /\ Respond(c)
    /\ UNCHANGED <<setting, built, serving, error, file, base, byHand, began, owed, met>>

EvictAll(c) ==
    /\ pc[c] = "evict"
    /\ contexts' = [f \in Folder |-> None]
    /\ configs' = [f \in Folder |-> None]
    /\ edited' = [edited EXCEPT ![FolderOf(c)] = file.version]
    /\ Respond(c)
    /\ UNCHANGED <<setting, built, serving, error, file, base, byHand, began, owed, met>>

\* _invalidate_context, whether or not the edit has raised.
Evict(c) ==
    /\ pc[c] = "evict"
    /\ contexts' = [contexts EXCEPT ![FolderOf(c)] = None]
    /\ configs' = [configs EXCEPT ![FolderOf(c)] = None]
    /\ edited' = [edited EXCEPT ![FolderOf(c)] = file.version]
    /\ Respond(c)
    /\ UNCHANGED <<setting, built, serving, error, file, base, byHand, began, owed, met>>

EndConvert(c) ==
    /\ pc[c] = "edited"
    /\ Respond(c)
    /\ UNCHANGED <<setting, contexts, configs, built, serving, error, file, base, byHand,
                   began, edited, owed, met>>

\* daemon_reset, which takes no context.
Reset(c) ==
    /\ pc[c] = "new" /\ Does(c) = "reset" /\ turn = None
    /\ contexts' = [f \in Folder |-> None]
    /\ configs' = [f \in Folder |-> None]
    /\ Meets(c)
    /\ Respond(c)
    /\ UNCHANGED <<setting, built, serving, error, file, base, byHand, began, edited, owed>>

----------------------------------------------------------------------------
\* The author writes, breaks or mends the file in an editor.
EditByHand ==
    /\ byHand < MaxByHand
    /\ \E s \in FileStates : file' = [file EXCEPT !.state = s, !.version = @ + 1]
    /\ byHand' = byHand + 1
    /\ UNCHANGED <<setting, pc, turn, contexts, configs, built, serving, error, base,
                   began, edited, owed, met>>

Next ==
    \/ \E c \in Command :
        \/ Create(c) \/ DropOther(c) \/ DropFailed(c) \/ Build(c) \/ BuildRaises(c)
        \/ Store(c) \/ Note(c) \/ Created(c) \/ CreateRaises(c)
        \/ Refuse(c) \/ Answer(c) \/ StartEdit(c) \/ ReadFile(c) \/ EmptyFile(c)
        \/ WriteFile(c) \/ EditRaises(c) \/ Evict(c) \/ EndConvert(c) \/ Reset(c)
    \/ EditByHand

Spec == Init /\ [][Next]_vars

----------------------------------------------------------------------------
Context == [loaded : BOOLEAN, version : Nat, config : Config \cup {None}]

\* Where a command may be; what is stored is a command's, and versions are counted.
TypeOK ==
    /\ setting \in Setting
    /\ pc \in [Command -> {"new", "compare", "check", "build", "store", "note", "made", "created",
                           "read", "empty", "write", "evict", "edited", "over"}]
    /\ turn \in Command \cup {None}
    /\ contexts \in [Folder -> Command \cup {None}]
    /\ configs \in [Folder -> Config \cup {None}]
    /\ built \in [Command -> Context]
    /\ serving \in [Command -> Command \cup {None}]
    /\ error \in [Command -> {None, "invalid", "internal", "unknown", "failed"}]
    /\ file \in [state : FileStates, version : Nat, edits : SUBSET Command]
    /\ base \in [Command -> SUBSET Command]
    /\ byHand \in 0..MaxByHand
    /\ began \in [Command -> Nat] /\ owed \in [Command -> Nat]
    /\ edited \in [Folder -> Nat]
    /\ met \in [Command -> SUBSET Command]

\* A command is served by a context that has read everything that was in the file when an
\* operation of its folder last evicted its context, before it began: that operation's own
\* edit, also one that failed half way (_invalidate_context runs in a finally), and whatever
\* was written before it.  An edit that evicts nothing is owed to nobody: a conversion's
\* (EndConvert), one by hand, one that was made through another folder.  And a context whose
\* root package did not load serves only commands that began before it was built
\* (context_create drops it), so that a file which was mended is read again.
AnswersAreFresh ==
    \A c \in Command : serving[c] # None =>
        /\ built[serving[c]].version >= owed[c]
        /\ ~built[serving[c]].loaded => built[serving[c]].version >= began[c]

\* A command is served by a context of its own user's configuration, unless one
\* with another configuration was going on in its folder.
OwnConfiguration ==
    \A c \in Command : serving[c] # None =>
        \/ built[serving[c]].config = ConfigOf(c)
        \/ \E d \in met[c] : FolderOf(d) = FolderOf(c) /\ ConfigOf(d) # ConfigOf(c)

\* The id that a command was given is unknown, or the context is gone before the
\* id is returned, only if meanwhile all contexts were reset, or that of its
\* folder was edited or rebuilt by a command that was going on.
RefusedForAReason ==
    \A c \in Command : error[c] \in {"unknown", "internal"} =>
        \E d \in met[c] :
            \/ Does(d) = "reset"
            \/ /\ FolderOf(d) = FolderOf(c)
               /\ \/ Evicts(d)
                  \/ ConfigOf(d) # ConfigOf(c)
                  \/ error[d] = "invalid"
                  \/ setting.http

\* What a command reports to have added is in the file, whoever edited it since,
\* as long as no edit fails half way.
EditsAreKept ==
    \/ setting.failing # {}
    \/ \E d \in Command : pc[d] = "write"
    \/ \A c \in Command : Edits(c) /\ serving[c] # None /\ pc[c] = "over" /\ error[c] = None
            /\ built[serving[c]].loaded => c \in file.edits

=============================================================================
