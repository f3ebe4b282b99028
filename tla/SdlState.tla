------------------------------ MODULE SdlState ------------------------------
(***************************************************************************)
(* The values of an SDL state (StateInfo.cpp): how a state starts from its *)
(* descriptor, what a blob of it holds, what reading a blob restores, and  *)
(* how states are added, merged and brought to a newer descriptor.         *)
(*                                                                         *)
(* A state is [key, vars]: key names the descriptor it points to in the    *)
(* database (two pointers are equal when their keys are), vars are its     *)
(* variables in the descriptor's order.  An element of a variable is the   *)
(* sequence of its components, as a default is; an element of a nested     *)
(* variable is a state whose own variables are all simple: nesting is      *)
(* modelled one level deep.  A blob is the sequence of fields the state    *)
(* wrote; a reader that meets another field than it expects has lost its   *)
(* place, which the code notices by an exception sooner or later.          *)
(***************************************************************************)
EXTENDS SdlParser

NullState == [key |-> <<>>, vars |-> <<>>]

\* The element memset or the constructors leave in a new array.
Zero(type) ==
    CASE type = "BOOL" -> <<FALSE>>
      [] type = "STRING32" -> <<"">>
      [] type \in {"VECTOR3", "POINT3"} -> <<0, 0, 0>>
      [] type \in {"QUATERNION", "RGB", "RGBA", "RGB8", "RGBA8"} -> <<0, 0, 0, 0>>
      [] type \in {"PLKEY", "CREATABLE", "AGETIMEOFDAY"} -> <<>>
      [] OTHER -> <<0>>

\* setDefault(): the default of the file; without one, zeros but for the last
\* component of a quaternion or a colour.
Default(vd) ==
    IF vd.valid THEN vd.default
    ELSE CASE vd.type \in {"QUATERNION", "RGB", "RGBA"} -> <<0, 0, 0, 1>>
           [] vd.type \in {"RGB8", "RGBA8"} -> <<0, 0, 0, 255>>
           [] OTHER -> Zero(vd.type)

\* A variable of a new state, after setDefault().  A variable without a fixed
\* size starts without elements.
NewVar(vd, element) ==
    [data  |-> [i \in 1 .. (IF vd.size > 0 THEN vd.size ELSE 0) |-> element],
     time  |-> 0, flags |-> {"SameAsDefault"}, dirty |-> FALSE]

\* A state without nested variables, and one with them.
FlatState(db, key) ==
    IF key \notin DOMAIN db THEN NullState
    ELSE [key  |-> key,
          vars |-> [i \in DOMAIN db[key].vars |->
                      NewVar(db[key].vars[i], Default(db[key].vars[i]))]]

Nested(vd) == vd.type = "StateDesc"

Resize(db, vd, n) ==
    [i \in 1 .. n |-> IF Nested(vd) THEN FlatState(db, <<vd.typeName, -1>>)
                                    ELSE Zero(vd.type)]

NewState(db, key) ==
    IF key \notin DOMAIN db THEN NullState
    ELSE [key  |-> key,
          vars |-> [i \in DOMAIN db[key].vars |->
                      LET vd == db[key].vars[i]
                      IN  NewVar(vd, IF Nested(vd)
                                     THEN FlatState(db, <<vd.typeName, -1>>)
                                     ELSE Default(vd))]]

\* A variable without a fixed size is never at its default, and one that has
\* no default in the file isn't either.
IsDefault(vd, var) ==
    /\ vd.size # -1
    /\ vd.valid
    /\ \A i \in DOMAIN var.data : var.data[i] = vd.default

IsDirty(state) == \E i \in DOMAIN state.vars : state.vars[i].dirty

----------------------------------------------------------------------------
Field(k, v) == <<[f |-> k, v |-> v]>>

\* m_simpleVars and m_sdVars: the places of the variables of either kind.
SimpleVars(db, key) ==
    SelectSeq([i \in DOMAIN db[key].vars |-> i],
              LAMBDA i : ~ Nested(db[key].vars[i]))
SdVars(db, key) ==
    SelectSeq([i \in DOMAIN db[key].vars |-> i],
              LAMBDA i : Nested(db[key].vars[i]))

\* Variable::write for a variable that is not nested.
WriteVar(vd, var) ==
    LET flags == IF IsDefault(vd, var) THEN var.flags \cup {"SameAsDefault"}
                                       ELSE var.flags
    IN  Field("var", [flags |-> flags,
                      time  |-> IF "HasTimeStamp" \in flags THEN var.time ELSE 0,
                      data  |-> IF "SameAsDefault" \in flags THEN <<>> ELSE var.data])

DirtyOf(state, list) == {j \in DOMAIN list : state.vars[list[j]].dirty}

\* The number of dirty variables of a list, then the dirty ones among those the
\* loop visits, each with its index when not all of the list are dirty.
WriteList(state, list, visited, Write(_)) ==
    LET count  == Cardinality(DirtyOf(state, list))
        One(j) == IF j \notin DirtyOf(state, list) THEN <<>>
                  ELSE (IF count # Len(list) THEN Field("index", j) ELSE <<>>)
                       \o Write(list[j])
    IN  Field("count", count) \o FlattenSeq([j \in 1 .. visited |-> One(j)])

WriteSimple(db, state) ==
    LET list == SimpleVars(db, state.key)
    IN  WriteList(state, list, Len(list),
                  LAMBDA i : WriteVar(db[state.key].vars[i], state.vars[i]))

\* Variable::write for a nested variable: the count is of all the children, the
\* fields that follow are of the dirty ones.
WriteNested(db, var) ==
    LET Child(i) == IF IsDirty(var.data[i])
                    THEN WriteSimple(db, var.data[i]) \o Field("count", 0) ELSE <<>>
    IN  Field("nested", [flags |-> var.flags, size |-> Len(var.data)])
        \o Field("count", Len(var.data))
        \o FlattenSeq([i \in DOMAIN var.data |-> Child(i)])

\* State::write: the loop over the nested variables ends at their count.
WriteState(db, state) ==
    LET list == SdVars(db, state.key)
    IN  WriteSimple(db, state)
        \o WriteList(state, list, Cardinality(DirtyOf(state, list)),
                     LAMBDA i : WriteNested(db, state.vars[i]))

EmptyBlob == [name |-> "", version |-> -1, fields |-> <<>>]

\* A null state has the empty blob.
ToBlob(db, state) ==
    IF state = NullState THEN EmptyBlob
    ELSE [name |-> db[state.key].name, version |-> db[state.key].version,
          fields |-> WriteState(db, state)]

----------------------------------------------------------------------------
\* A reader is [vars, in, ok]: what it filled so far, what is left of the blob,
\* and whether it is still in step with it.
Expects(r, k) == r.ok /\ r.in # <<>> /\ Head(r.in).f = k
Lost(r) == [r EXCEPT !.ok = FALSE]
Skip(r) == [r EXCEPT !.in = Tail(@)]

\* Variant: a variable that was read is not marked as worth saving.
ReadVar_clean(var, w, now) ==
    [data  |-> IF "SameAsDefault" \in w.flags THEN var.data ELSE w.data,
     time  |-> now, flags |-> w.flags, dirty |-> FALSE]

\* Variable::read for a variable that is not nested, at the time now.
ReadVar(var, w, now) ==
    LET stamped == {"HasDirtyFlag", "WantTimeStamp"} \subseteq w.flags
    IN  [data  |-> IF "SameAsDefault" \in w.flags THEN var.data ELSE w.data,
         time  |-> IF stamped THEN now
                   ELSE IF "HasTimeStamp" \in w.flags THEN w.time ELSE var.time,
         flags |-> IF stamped THEN (w.flags \ {"WantTimeStamp"}) \cup {"HasTimeStamp"}
                              ELSE w.flags,
         dirty |-> TRUE]

\* A count and as many elements, with an index each unless the count is that of
\* all n places.
ReadList(r, n, Read(_, _)) ==
    LET count == Head(r.in).v
        whole == count = n
        One(q, i) ==
            IF ~ (q.ok /\ (whole \/ (Expects(q, "index") /\ Head(q.in).v \in 1 .. n)))
            THEN Lost(q)
            ELSE Read(IF whole THEN q ELSE Skip(q), IF whole THEN i ELSE Head(q.in).v)
    IN  IF Expects(r, "count") THEN FoldLeft(One, Skip(r), [i \in 1 .. count |-> i])
                               ELSE Lost(r)

ReadSimple(db, key, r, now) ==
    LET list == SimpleVars(db, key)
        One(q, j) == IF ~ Expects(q, "var") THEN Lost(q)
                     ELSE [Skip(q) EXCEPT !.vars[list[j]] = ReadVar(@, Head(q.in).v, now)]
    IN  ReadList(r, Len(list), One)

\* Variable::read for a nested variable, whose children so far are data: each
\* child reads its own fields, which end with its count of nested variables.
ReadChildren(db, data, r, now) ==
    LET Place(q, j, c) == IF Expects(c, "count")
                          THEN [vars |-> [q.vars EXCEPT ![j].vars = c.vars],
                                in |-> Tail(c.in), ok |-> TRUE]
                          ELSE Lost(q)
        Child(q, j) == Place(q, j, ReadSimple(db, data[j].key,
                                 [vars |-> q.vars[j].vars, in |-> q.in, ok |-> TRUE], now))
    IN  ReadList([r EXCEPT !.vars = data], Len(data), Child)

ReadNested(db, vd, r, i, now) ==
    LET w == Head(r.in).v
        Fill(all) == [all EXCEPT !.vars = [r.vars EXCEPT ![i] =
                        [data |-> all.vars, time |-> @.time, flags |-> w.flags, dirty |-> TRUE]]]
    IN  IF ~ Expects(r, "nested") THEN Lost(r)
        ELSE Fill(ReadChildren(db, IF vd.size = -1 THEN Resize(db, vd, w.size)
                                                   ELSE r.vars[i].data, Skip(r), now))

\* State::read: the simple variables, then the nested ones.
ReadState(db, state, fields, now) ==
    LET list == SdVars(db, state.key)
        One(q, j) == ReadNested(db, db[state.key].vars[list[j]], q, list[j], now)
        Whole(r) == [ok |-> r.ok, state |-> [state EXCEPT !.vars = r.vars]]
    IN  Whole(ReadList(ReadSimple(db, state.key,
                                  [vars |-> state.vars, in |-> fields, ok |-> TRUE], now),
                       Len(list), One))

\* FromBlob: null for an empty blob and for one whose descriptor the database
\* doesn't have; ok is FALSE when the read throws.
FromBlob(db, blob, now) ==
    LET key == <<blob.name, blob.version>>
    IN  IF blob = EmptyBlob \/ key \notin DOMAIN db THEN [ok |-> TRUE, state |-> NullState]
        ELSE ReadState(db, NewState(db, key), blob.fields, now)

----------------------------------------------------------------------------
\* add: the dirty variables of the other state, which must have the same
\* descriptor (the code throws otherwise).
CanAdd(state, other) == state = NullState \/ state.key = other.key

Add(state, other) ==
    [state EXCEPT !.vars = [i \in DOMAIN state.vars |->
        IF other.vars[i].dirty THEN other.vars[i] ELSE state.vars[i]]]

\* merge: the newer variables of the other state; states of different
\* descriptors are left alone.  The other state is not tested for null: merging a
\* null state into one that is not ends the process.
CanMerge(state, other) == state = NullState \/ other # NullState

Merge(state, other) ==
    IF state = NullState \/ state.key # other.key THEN state
    ELSE [state EXCEPT !.vars = [i \in DOMAIN state.vars |->
            IF other.vars[i].time > state.vars[i].time THEN other.vars[i]
                                                       ELSE state.vars[i]]]

LatestKey(db, name) ==
    IF Versions(db, name) = {} THEN <<>> ELSE <<name, Max(Versions(db, name))>>

\* copy: as many elements of data as fit; neither flags nor time come along.
CopyVar(db, vd, var, data) ==
    LET room == IF vd.size = -1 THEN Resize(db, vd, Len(data)) ELSE var.data
    IN  [var EXCEPT !.data = [i \in DOMAIN room |->
            IF i > Len(data) THEN room[i] ELSE data[i]]]

\* The variables of a state with a newer descriptor: each takes the elements of
\* the last old variable of its name, children after an update of their own.
Upgrade(db, state, fresh, Update(_)) ==
    LET old == db[state.key].vars
        new == db[fresh.key].vars
        Named(i) == {j \in DOMAIN old : old[j].name = new[i].name}
        Data(i, data) == IF Nested(new[i]) THEN [k \in DOMAIN data |-> Update(data[k])] ELSE data
    IN  [ok    |-> \A i \in DOMAIN new : Named(i) # {} =>
                     old[Max(Named(i))].type = new[i].type,
         state |-> [fresh EXCEPT !.vars = [i \in DOMAIN new |->
                     IF Named(i) = {} THEN fresh.vars[i]
                     ELSE CopyVar(db, new[i], fresh.vars[i],
                                  Data(i, state.vars[Max(Named(i))].data))]]]

\* update(): ok is FALSE when a variable has changed its type and copy throws.
Update(db, state) ==
    LET latest(st) == LatestKey(db, db[st.key].name)
        Child(st) == IF st = NullState \/ latest(st) = st.key THEN st
                     ELSE Upgrade(db, st, FlatState(db, latest(st)), LAMBDA x : x).state
    IN  IF state = NullState \/ latest(state) = state.key THEN [ok |-> TRUE, state |-> state]
        ELSE Upgrade(db, state, NewState(db, latest(state)), Child)

\* What the reader of a row does: FromBlob, and update() unless it threw.
Load(db, blob) ==
    LET Latest(read) == IF read.ok THEN Update(db, read.state) ELSE read
    IN  Latest(FromBlob(db, blob, 0))

\* What a client sees of a state: its elements, those of its children included.
Values(db, state) ==
    [i \in DOMAIN state.vars |->
        LET data == state.vars[i].data
        IN  IF Nested(db[state.key].vars[i])
            THEN [j \in DOMAIN data |-> [k \in DOMAIN data[j].vars |-> data[j].vars[k].data]]
            ELSE data]
=============================================================================
