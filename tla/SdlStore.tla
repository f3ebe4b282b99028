------------------------------ MODULE SdlStore ------------------------------
(***************************************************************************)
(* Where SDL states are kept: the global state of an age, which the auth   *)
(* daemon holds in s_globalStates and saves in vault.GlobalStates, and the *)
(* state of one object of the age, which the game host holds in m_states   *)
(* and saves in game.AgeStates.  Both are read back with whatever          *)
(* descriptors the SDL files have at the next start.                       *)
(*                                                                         *)
(* The host's copy of the global state and the variables a merge takes     *)
(* from it are the daemon's own objects, so a change shows in the host at  *)
(* once; the model lets the host see it when it handles the message.       *)
(***************************************************************************)
EXTENDS SdlState

CONSTANTS
    AgeName,        \* the age: the name of its descriptor
    GlobalChanges,  \* what the console may ask: [var, value], value <<>> for none
    ObjectBlobs     \* the blobs clients send for the object
                    \* (both are sequences: their members differ in type)

VARIABLES
    files,          \* the SDL files main reads, closed before the daemon starts
    descriptors,    \* s_descriptors
    globalRow,      \* the age's SdlBlob in vault.GlobalStates; <<>> without a row
    globalState,    \* s_globalStates[AgeName]; <<>> without an entry
    drifted,        \* the last change of globalState was not saved
    hook,           \* m_ageSdlHook of the age's host; <<>> without a host
    told,           \* the host has no global update waiting
    objRow,         \* the object's SdlBlob in game.AgeStates; <<>> without a row
    objState,       \* the object's entry of m_states; <<>> without one
    saved           \* objRow was written from objState

sdlVars == <<files, descriptors, globalRow, globalState, drifted, hook, told,
             objRow, objState, saved>>

None == <<>>

SdlInit ==
    /\ files = <<>> /\ descriptors = <<>>
    /\ globalRow = None /\ globalState = None /\ drifted = FALSE
    /\ hook = None /\ told = TRUE
    /\ objRow = None /\ objState = None /\ saved = FALSE

\* The process starts with these files; what was in memory is gone.
StartWith(dir) ==
    /\ files' = dir
    /\ descriptors' = LoadDescriptors(dir)
    /\ globalState' = None /\ drifted' = FALSE
    /\ hook' = None /\ told' = TRUE /\ objState' = None /\ saved' = FALSE
    /\ UNCHANGED <<globalRow, objRow>>

\* main goes on; nothing reads the files again.
CloseFiles ==
    /\ files' = <<>>
    /\ UNCHANGED <<descriptors, globalRow, globalState, drifted, hook, told,
                   objRow, objState, saved>>

----------------------------------------------------------------------------
Latest == LatestKey(descriptors, AgeName)

\* v_check_global_sdl without a row: a new state is entered and then saved.
v_check_global_sdl_new(fails) ==
    LET state == NewState(descriptors, Latest)
    IN  /\ Latest # <<>> /\ globalRow = None
        /\ globalState' = state
        /\ globalRow' = IF fails THEN None ELSE ToBlob(descriptors, state)
        /\ drifted' = fails

\* v_check_global_sdl with a row, which was loaded as new: a state of another
\* descriptor than the latest is brought to it and saved; a failing save is only
\* reported.
v_check_global_sdl_old(new, fails) ==
    LET other == <<globalRow.name, globalRow.version>> # Latest
    IN  /\ Latest # <<>>
        /\ new.ok
        /\ globalState' = new.state
        /\ globalRow' = IF other /\ ~ fails THEN ToBlob(descriptors, new.state)
                                            ELSE globalRow
        /\ drifted' = (other /\ fails)

\* FromBlob or update() throws in the daemon's start, which nothing catches.
UpgradeThrows ==
    /\ Latest # <<>> /\ globalRow # None
    /\ ~ Load(descriptors, globalRow).ok

\* dm_global_sdl_init, for the one age that has a descriptor and an age file.
dm_global_sdl_init(fails) ==
    /\ \/ v_check_global_sdl_new(fails)
       \/ globalRow # None /\ v_check_global_sdl_old(Load(descriptors, globalRow), fails)
       \/ /\ Latest = <<>>
          /\ UNCHANGED <<globalState, globalRow, drifted>>
    /\ UNCHANGED <<files, descriptors, hook, told, objRow, objState, saved>>

\* v is the first simple variable of this name.
Asked(v, name) ==
    LET vds == descriptors[globalState.key].vars
        Is(i) == ~ Nested(vds[i]) /\ vds[i].name = name
    IN  Is(v) /\ \A i \in 1 .. v - 1 : ~ Is(i)

Settable == {"BOOL", "BYTE", "INT", "SHORT", "STRING32"}

\* Variant: the variable keeps the flag that says it has its default.
Changed_sameFlags(vd, var, value, now) ==
    [var EXCEPT !.flags = @ \cup {"HasTimeStamp"}, !.dirty = TRUE, !.time = now,
                !.data = IF value = <<>> THEN [i \in DOMAIN @ |-> Default(vd)]
                         ELSE IF vd.type \notin Settable THEN @
                         ELSE [@ EXCEPT ![1] = IF vd.type = "BOOL" THEN <<value # <<0>>>> ELSE value]]

\* The variable after the request at the time now.
Changed(vd, var, value, now) ==
    LET marked == [var EXCEPT !.flags = @ \cup {"HasTimeStamp"}, !.dirty = TRUE, !.time = now]
    IN  IF value = <<>>
        THEN [marked EXCEPT !.flags = @ \cup {"SameAsDefault"},
                            !.data = [i \in DOMAIN @ |-> Default(vd)]]
        ELSE IF vd.type \notin Settable THEN [marked EXCEPT !.flags = @ \ {"SameAsDefault"}]
        ELSE [marked EXCEPT !.flags = @ \ {"SameAsDefault"}, !.data[1] =
                 IF vd.type = "BOOL" THEN <<value # <<0>>>> ELSE value]

\* A null state is dereferenced, and so is the array of a variable without
\* elements: the process ends.
update_globalSDL_crashes(change) ==
    /\ globalState # None
    /\ \/ globalState = NullState
       \/ \E v \in DOMAIN globalState.vars :
             /\ Asked(v, change.var) /\ change.value # <<>>
             /\ descriptors[globalState.key].vars[v].type \in Settable
             /\ globalState.vars[v].data = <<>>

\* dm_auth_update_globalSDL: the variable is changed in place, saved unless its
\* type is not supported, and the hosts of the age are told.
dm_auth_update_globalSDL(change, now, fails) ==
    /\ globalState # None
    /\ ~ update_globalSDL_crashes(change)
    /\ \E v \in DOMAIN globalState.vars :
          LET vd    == descriptors[globalState.key].vars[v]
              saves == change.value = <<>> \/ vd.type \in Settable
          IN  /\ Asked(v, change.var)
              /\ globalState' = [globalState EXCEPT !.vars[v] = Changed(vd, @, change.value, now)]
              /\ globalRow' = IF saves /\ ~ fails THEN ToBlob(descriptors, globalState')
                                                  ELSE globalRow
              /\ drifted' = (saves => fails)
              /\ told' = (told /\ ~ (saves /\ hook # None))
    /\ UNCHANGED <<files, descriptors, hook, objRow, objState, saved>>

----------------------------------------------------------------------------
\* The blob an age's SDL node starts with.
gen_default_sdl == ToBlob(descriptors, NewState(descriptors, <<AgeName, -1>>))

LocalState == FromBlob(descriptors, gen_default_sdl, 0).state

\* The m_globalState of a new host: null for an age the daemon has no state of.
HostGlobal == IF globalState = None THEN NullState ELSE globalState

\* A host of an age that has a descriptor but no global state to merge: the
\* process ends.
start_game_host_crashes ==
    /\ hook = None /\ Latest # <<>>
    /\ ~ CanMerge(LocalState, HostGlobal)

\* The part of start_game_host that fills the host's states, of an age that has a
\* descriptor: the age's own state is a default one, which takes what is newer in
\* the global state; the row of an object that cannot be read, or upgraded, is
\* skipped.
FillObject(row, fails) == objState' = IF fails \/ ~ row.ok THEN None ELSE row.state

start_game_host(fails) ==
    /\ hook = None /\ Latest # <<>>
    /\ CanMerge(LocalState, HostGlobal)
    /\ hook' = Merge(LocalState, HostGlobal)
    /\ FillObject(IF objRow = None THEN [ok |-> FALSE] ELSE Load(descriptors, objRow), fails)
    /\ told' = TRUE /\ saved' = FALSE
    /\ UNCHANGED <<files, descriptors, globalRow, globalState, drifted, objRow>>

\* dm_global_sdl_update.
dm_global_sdl_update ==
    /\ hook # None /\ ~ told /\ CanMerge(hook, globalState)
    /\ hook' = Merge(hook, globalState)
    /\ told' = TRUE
    /\ UNCHANGED <<files, descriptors, globalRow, globalState, drifted, objRow, objState, saved>>

\* dm_read_sdl for an object, whose blob was read: the first state is kept as
\* it came, a later one is added to it; a blob that cannot be read, one of an
\* unknown descriptor and one of another version than the state's are dropped.
dm_read_sdl(read, persist, fails) ==
    /\ hook # None
    /\ read.ok /\ read.state # NullState
    /\ objState # None => CanAdd(objState, read.state)
    /\ objState' = IF objState = None THEN read.state
                   ELSE IF objState = NullState THEN NullState
                   ELSE Add(objState, read.state)
    /\ objRow' = IF persist /\ ~ fails THEN ToBlob(descriptors, objState') ELSE objRow
    /\ saved' = (persist /\ ~ fails)
    /\ UNCHANGED <<files, descriptors, globalRow, globalState, drifted, hook, told>>

\* The host shuts down.
StopHost ==
    /\ hook # None
    /\ hook' = None /\ told' = TRUE /\ objState' = None /\ saved' = FALSE
    /\ UNCHANGED <<files, descriptors, globalRow, globalState, drifted, objRow>>

----------------------------------------------------------------------------
\* A state that fits its descriptor: every variable has the elements its size
\* asks for, and an element the components of its type.
Fitting(db, state) ==
    /\ Len(state.vars) = Len(db[state.key].vars)
    /\ \A i \in DOMAIN state.vars :
          LET vd   == db[state.key].vars[i]
              data == state.vars[i].data
          IN  /\ vd.size # -1 => Len(data) = vd.size
              /\ \A j \in DOMAIN data :
                    IF Nested(vd) THEN data[j].key = <<vd.typeName, -1>>
                                  ELSE Len(data[j]) = Len(Zero(vd.type))

SdlTypeOK ==
    /\ \A k \in DOMAIN descriptors : k[1] = descriptors[k].name /\ descriptors[k].version >= 0
    /\ \A state \in {globalState, hook, objState} \ {None} :
          state = NullState \/ (state.key \in DOMAIN descriptors /\ Fitting(descriptors, state))
    /\ {drifted, told, saved} \subseteq BOOLEAN
    /\ told \/ hook # None

\* What a restart would make of the i-th variable is the value it has in memory.
RestartGives(read, i) ==
    read.ok /\ Values(descriptors, read.state)[i] = Values(descriptors, globalState)[i]

\* What the console set is what a restart restores and what the age shows.  The row
\* of the global state, when it was saved last, reads back with the value that a
\* variable has in memory exactly if the variable was set since the last upgrade
\* or has its default: an upgrade carries the values over but not the marks that
\* have them written, so that its own save empties the row.  A host that has
\* handled its messages has the values of all variables that were ever set
\* (dm_auth_update_globalSDL, v_check_global_sdl, State::update, start_game_host,
\* dm_global_sdl_update).
GlobalAgrees ==
    LET row   == FromBlob(descriptors, globalRow, 0)
        fresh == Values(descriptors, NewState(descriptors, globalState.key))
        IsKept(i) == \/ globalState.vars[i].dirty
                     \/ Values(descriptors, globalState)[i] = fresh[i]
    IN  globalState \notin {None, NullState} =>
        /\ ~ drifted => \A i \in DOMAIN globalState.vars : IsKept(i) <=> RestartGives(row, i)
        /\ hook # None /\ told =>
              /\ hook.key = globalState.key
              /\ \A i \in DOMAIN globalState.vars : globalState.vars[i].time > 0 =>
                    hook.vars[i].data = globalState.vars[i].data

\* The object's variables that have changes, without gaps: the dirty nested ones
\* come first, and all their children are dirty.
Contiguous(state) ==
    LET list  == SdVars(descriptors, state.key)
        dirty == DirtyOf(state, list)
    IN  /\ dirty = 1 .. Cardinality(dirty)
        /\ \A j \in dirty : \A c \in Range(state.vars[list[j]].data) : IsDirty(c)

\* A saved object can be read back with the values it had exactly if its changes
\* are without gaps: State::write ends its loop over the nested variables at
\* the number of dirty ones, and Variable::write counts the children it skips.
\* So a row the host wrote may be one it cannot read.
ObjectRestorable ==
    LET Restores(read) ==
            read.ok /\ Values(descriptors, read.state) = Values(descriptors, objState)
    IN  saved /\ objState # NullState =>
            (Contiguous(objState) <=> Restores(FromBlob(descriptors, objRow, 0)))
=============================================================================
