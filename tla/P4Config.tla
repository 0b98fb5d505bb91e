------------------------------ MODULE P4Config ------------------------------
(***************************************************************************)
(* The construction of a P4 program from its JSON: P4Objects.cpp and the   *)
(* PHV factory of phv.cpp.                                                  *)
(*                                                                         *)
(* init_objects goes through the sections of the file in a fixed order and *)
(* builds their objects one by one; an object may refer only to what is    *)
(* already built.  The control flow nodes of a pipeline refer to each      *)
(* other, so their successors are resolved in a second pass over the       *)
(* pipeline.  A check that fails ends the load: with status 1 (a           *)
(* json_exception caught by init_objects), with another exception that     *)
(* init_objects does not catch, or with an assertion.                      *)
(*                                                                         *)
(* An object of the file is a record: sec (its section), name, id, pipe    *)
(* (its pipeline, 0 for the other sections), uses (the <<kind, name>> it   *)
(* refers to), at (those looked up with at()), fields (the <<header,       *)
(* offset>> it refers to), evals (those it evaluates), members (of a       *)
(* stack or a union, in order), states (<<name, id>> of a parser), next    *)
(* (successors), own (an action profile in the old format), direct and ok  *)
(* (all checks on the object alone hold).                                  *)
(***************************************************************************)
EXTENDS Naturals, Sequences, FiniteSets
LOCAL INSTANCE SequencesExt

CONSTANTS
  PoConfigs,      \* the files: sequences of objects, sections in any order
  PoWidth,        \* fields of a header
  PoPipelines     \* pipelines of a file

VARIABLES
  poCfg,          \* the file
  poTodo,         \* the steps init_objects still has to do
  poObjs,         \* the objects built: <<kind, name>>
  poIds,          \* the ids seen by each DupIdChecker: <<section, pipeline, id>>
  poArith,        \* arith_offsets of the header descriptors: <<header, offset>>
  poStatus        \* "empty", "loading", "ok", "json_error", "exception" or "abort"

poVars == <<poCfg, poTodo, poObjs, poIds, poArith, poStatus>>

-----------------------------------------------------------------------------
\* init_objects: the order of the sections.
EarlySections ==
  <<"enum", "header_type", "header", "header_stack", "union_type", "header_union",
    "union_stack", "alias", "extern", "vset", "error", "parser", "deparser",
    "calculation", "counter", "meter", "register", "action">>
LateSections == <<"checksum", "learn_list", "field_list", "required", "force_arith">>

\* A mutation of PipelineParts: successors are resolved node by node.
PipelinePartsOnePass ==
  << <<"pipeline", "open">>, <<"act_prof", "build">>,
     <<"table", "build">>, <<"table", "link">>,
     <<"condition", "build">>, <<"condition", "link">>,
     <<"call", "build">>, <<"call", "link">>, <<"pipeline", "link">> >>

\* init_pipelines: what is done for one pipeline, section and pass.
PipelineParts ==
  << <<"pipeline", "open">>, <<"act_prof", "build">>, <<"table", "build">>,
     <<"condition", "build">>, <<"call", "build">>, <<"table", "link">>,
     <<"condition", "link">>, <<"call", "link">>, <<"pipeline", "link">> >>

\* The steps for the objects of one section, in the order of the file.
StepsOf(cfg, sec, pipe, pass) ==
  LET Mine(o) == o.sec = sec /\ o.pipe = pipe
      objs == SelectSeq(cfg, Mine)
  IN [i \in 1..Len(objs) |-> [pass |-> pass, o |-> objs[i]]]

LoadOrder(cfg) ==
  LET Section(secs) ==
        FlattenSeq([i \in 1..Len(secs) |-> StepsOf(cfg, secs[i], 0, "build")])
      Pipe(p) ==
        FlattenSeq([i \in 1..Len(PipelineParts) |->
          StepsOf(cfg, PipelineParts[i][1], p, PipelineParts[i][2])])
  IN Section(EarlySections) \o FlattenSeq([p \in 1..PoPipelines |-> Pipe(p)])
       \o Section(LateSections)

PoInit ==
  /\ poCfg = <<>> /\ poTodo = <<>>
  /\ poObjs = {} /\ poIds = {} /\ poArith = {}
  /\ poStatus = "empty"

\* init_objects is given a file.
LoadBegins(cfg) ==
  /\ poStatus = "empty"
  /\ poCfg' = cfg /\ poTodo' = LoadOrder(cfg) /\ poStatus' = "loading"
  /\ UNCHANGED <<poObjs, poIds, poArith>>

-----------------------------------------------------------------------------
\* A check is a pair: the condition and what happens when it does not hold.
\* DupIdChecker::add; the checkers of tables, conditions and profiles are local
\* to the turn of the pipeline.
DupId(o) == <<<<o.sec, o.pipe, o.id>> \notin poIds, "json_error">>

\* The map an object is added to: all control flow nodes share one.
Kind(o) == IF o.sec \in {"table", "condition", "call"} THEN "node" ELSE o.sec

\* add_new_object, behind every add_*.
AddNew(o) == <<<<Kind(o), o.name>> \notin poObjs, "json_error">>

\* get_field_offset, field_exists.
FieldExists(f) == <<"header", f[1]>> \in poObjs /\ f[2] \in 0..PoWidth - 1

\* get_object, behind every get_*_cfg, and field_info.
Refs(o) == <<o.uses \subseteq poObjs /\ \A f \in o.fields : FieldExists(f),
             "json_error">>
RefsAt(o) == <<o.at \subseteq poObjs, "exception">>
RefsAssert(o) == <<o.uses \subseteq poObjs /\ \A f \in o.fields : FieldExists(f),
                   "abort">>
RefsUncaught(o) == <<\A f \in o.fields : FieldExists(f), "exception">>
Successors(o) == <<\A n \in o.next : <<"node", n>> \in poObjs, "json_error">>
Alone(o) == <<o.ok, "json_error">>

\* The headers that exchange their values with h when a stack is pushed or
\* popped: those of its stack, or those at its position in the unions of its
\* stack of unions (header_id_to_stack_id, header_id_to_union_pos and
\* union_id_to_union_stack_id).
PoWith(sec, m) ==
  LET Has(o) == o.sec = sec /\ m \in ToSet(o.members) IN SelectSeq(poCfg, Has)
Siblings(h) ==
  LET unions == PoWith("header_union", h)
      ustacks == IF unions = <<>> THEN <<>> ELSE PoWith("union_stack", unions[1].name)
      stacks == PoWith("header_stack", h)
      pos == CHOOSE k \in 1..Len(unions[1].members) : unions[1].members[k] = h
  IN CASE ustacks # <<>> ->
            {o.members[pos] : o \in {o \in ToSet(poCfg) :
               o.sec = "header_union" /\ o.name \in ToSet(Last(ustacks).members)}}
       [] ustacks = <<>> /\ stacks # <<>> -> ToSet(Last(stacks).members)
       [] OTHER -> {h}

\* enable_arith, and the enable_* of the PHV factory.
EnableArith(f) == {<<h, f[2]>> : h \in Siblings(f[1])}

Enabled(o) == UNION {EnableArith(f) : f \in o.evals}

\* header_descs.at(header_id) of enable_field_arith.
ArithTargets(o) == <<\A f \in Enabled(o) : FieldExists(f), "exception">>

\* build_expression: the headers, fields, stacks, unions and register arrays an
\* expression names; the fields it evaluates are enabled.
Expr(o) == <<Refs(o), ArithTargets(o)>>

\* process_single_param: also calculations, meters, counters and externs.
SingleParam(o) == <<Refs(o), ArithTargets(o)>>

\* add_primitive_to_action: a known primitive with the right number of parameters.
Primitives(o) == <<Alone(o)>> \o SingleParam(o)

-----------------------------------------------------------------------------
\* The checks of each section, in the order of the code.
InitEnums(o) == <<AddNew(o), Alone(o)>>
InitHeaderTypes(o) == <<DupId(o), AddNew(o)>>
InitHeaders(o) == <<DupId(o), Refs(o), AddNew(o)>>
InitHeaderStacks(o) == <<DupId(o), Refs(o), AddNew(o)>>
\* A second union type of the same name is ignored (emplace).
InitUnionTypes(o) == <<Refs(o)>>
InitHeaderUnions(o) == <<RefsAt(o), AddNew(o)>>
InitUnionStacks(o) == <<RefsAt(o), AddNew(o)>>
InitAliases(o) == <<RefsAssert(o)>>
InitExterns(o) == <<DupId(o), Alone(o)>> \o Expr(o) \o <<AddNew(o)>>
InitParseVsets(o) == <<DupId(o), AddNew(o)>>
InitErrors(o) == <<AddNew(o)>>

\* The operations of the states: extract, set, verify, primitive, shift, advance.
ParserOps(o) == Primitives(o) \o Expr(o)
TransitionKey(o) == Refs(o)

\* The states of a parser: ids and names are unique in the parser.  A next_state
\* that does not exist becomes the null state (operator[]), which accepts.
ParseStates(o) ==
  <<\A i, j \in 1..Len(o.states) :
      i # j => o.states[i][1] # o.states[j][1] /\ o.states[i][2] # o.states[j][2],
    "json_error">>
InitParsers(o) ==
  <<DupId(o)>> \o ParserOps(o) \o <<TransitionKey(o), ParseStates(o), AddNew(o)>>
InitDeparsers(o) == <<DupId(o)>> \o Primitives(o) \o <<AddNew(o)>>
InitCalculations(o) == <<DupId(o), Refs(o), Alone(o), AddNew(o)>>
\* Direct counters belong to their table and are not registered.
InitCounters(o) == IF o.direct THEN <<DupId(o)>> ELSE <<DupId(o), AddNew(o)>>
InitMeters(o) == <<DupId(o), Alone(o), AddNew(o), Refs(o)>>
InitRegisters(o) == <<DupId(o), AddNew(o)>>
\* add_action: actions_map is keyed by the id, names may repeat.
InitActions(o) == <<DupId(o)>> \o Primitives(o)

InitPipeline(o) == <<DupId(o)>>
InitActProfs(o) == <<DupId(o), Refs(o), Alone(o), AddNew(o)>>

\* direct_meters[meter_name] of an unknown name is the null meter, and
\* MatchUnitAbstract_::set_direct_meters asserts.
DirectMeter(o) == <<\A m \in o.at : m \in poObjs, "abort">>
\* An indirect table in the old format registers an action profile itself.
OwnProfile(o) == <<\A p \in o.own : <<"act_prof", p>> \notin poObjs, "json_error">>
InitTables(o) ==
  <<DupId(o), Alone(o), Refs(o), OwnProfile(o), DirectMeter(o), AddNew(o)>>
InitConditions(o) == <<DupId(o)>> \o Expr(o) \o <<AddNew(o)>>
\* get_action_by_id is actions_map.at.
InitCalls(o) == <<RefsAt(o), Alone(o), AddNew(o)>>

\* Next node resolution.  check_next_nodes: __HIT__ and __MISS__, or one successor
\* for each action.
CheckNextNodes(o) == Alone(o)
\* default_entry and entries: an action that exists with its number of arguments,
\* a match key of the table's shape.
TableEntries(o) == Alone(o)
\* A table's actions are looked up by id.
LinkTable(o) ==
  <<CheckNextNodes(o),
    <<\A a \in o.actions : <<"action", a>> \in poObjs, "exception">>,
    Successors(o), TableEntries(o)>>
LinkNode(o) == <<Alone(o), Successors(o)>>
LinkPipeline(o) == <<Successors(o), AddNew(o)>>

InitChecksums(o) == <<DupId(o)>> \o Expr(o)
InitLearnLists(o) == <<DupId(o), Refs(o)>>
InitFieldLists(o) == <<DupId(o), Refs(o), Alone(o)>>
CheckRequired(o) == <<Refs(o)>>
\* force_arith is read after the try block: a bad field is not caught.
ForceArith(o) == <<RefsUncaught(o), ArithTargets(o)>>

Checks(step) ==
  LET o == step.o
  IN CASE step.pass = "open" -> InitPipeline(o)
       [] step.pass = "link" ->
            CASE o.sec = "table" -> LinkTable(o)
              [] o.sec = "pipeline" -> LinkPipeline(o)
              [] OTHER -> LinkNode(o)
       [] OTHER ->
            CASE o.sec = "enum" -> InitEnums(o)
              [] o.sec = "header_type" -> InitHeaderTypes(o)
              [] o.sec = "header" -> InitHeaders(o)
              [] o.sec = "header_stack" -> InitHeaderStacks(o)
              [] o.sec = "union_type" -> InitUnionTypes(o)
              [] o.sec = "header_union" -> InitHeaderUnions(o)
              [] o.sec = "union_stack" -> InitUnionStacks(o)
              [] o.sec = "alias" -> InitAliases(o)
              [] o.sec = "extern" -> InitExterns(o)
              [] o.sec = "vset" -> InitParseVsets(o)
              [] o.sec = "error" -> InitErrors(o)
              [] o.sec = "parser" -> InitParsers(o)
              [] o.sec = "deparser" -> InitDeparsers(o)
              [] o.sec = "calculation" -> InitCalculations(o)
              [] o.sec = "counter" -> InitCounters(o)
              [] o.sec = "meter" -> InitMeters(o)
              [] o.sec = "register" -> InitRegisters(o)
              [] o.sec = "action" -> InitActions(o)
              [] o.sec = "act_prof" -> InitActProfs(o)
              [] o.sec = "table" -> InitTables(o)
              [] o.sec = "condition" -> InitConditions(o)
              [] o.sec = "call" -> InitCalls(o)
              [] o.sec = "checksum" -> InitChecksums(o)
              [] o.sec = "learn_list" -> InitLearnLists(o)
              [] o.sec = "field_list" -> InitFieldLists(o)
              [] o.sec = "required" -> CheckRequired(o)
              [] o.sec = "force_arith" -> ForceArith(o)

\* What a step registers: actions under their id, most objects under their name.
Registered(step) ==
  LET o == step.o
  IN CASE step.pass = "open" \/ (step.pass = "link" /\ o.sec # "pipeline") -> {}
       [] o.sec = "action" -> {<<"action", o.id>>}
       [] o.sec = "counter" /\ o.direct -> {}
       [] o.sec = "meter" /\ o.direct ->
            {<<"meter", o.name>>, <<"direct_meter", o.name>>}
       [] o.sec = "table" -> {<<"node", o.name>>} \cup {<<"act_prof", p>> : p \in o.own}
       [] o.sec \in {"alias", "checksum", "learn_list", "field_list", "required",
                     "force_arith"} -> {}
       [] OTHER -> {<<Kind(o), o.name>>}

\* The sections, or parts, with a DupIdChecker.
WithIds == {"header_type", "header", "header_stack", "extern", "vset", "parser",
            "deparser", "calculation", "counter", "meter", "register", "action",
            "pipeline", "act_prof", "table", "condition", "checksum",
            "learn_list", "field_list"}

\* One object of the file.
BuildStep ==
  /\ poStatus = "loading" /\ poTodo # <<>>
  /\ LET step == Head(poTodo)
         failed == SelectSeq(Checks(step), LAMBDA c : ~c[1])
     IN IF failed # <<>>
        THEN /\ poStatus' = failed[1][2]
             /\ poTodo' = <<>>
             /\ UNCHANGED <<poObjs, poIds, poArith>>
        ELSE /\ poTodo' = Tail(poTodo)
             /\ poObjs' = poObjs \cup Registered(step)
             /\ poIds' = IF step.o.sec \in WithIds
                         THEN poIds \cup {<<step.o.sec, step.o.pipe, step.o.id>>}
                         ELSE poIds
             /\ poArith' = poArith \cup Enabled(step.o)
             /\ UNCHANGED poStatus
  /\ UNCHANGED poCfg

\* The end of init_objects.
LoadEnds ==
  /\ poStatus = "loading" /\ poTodo = <<>>
  /\ poStatus' = "ok"
  /\ UNCHANGED <<poCfg, poTodo, poObjs, poIds, poArith>>

PoNext == BuildStep \/ LoadEnds \/ \E cfg \in PoConfigs : LoadBegins(cfg)
PoSpec == PoInit /\ [][PoNext]_poVars

-----------------------------------------------------------------------------
PoTypeOK ==
  /\ poCfg \in PoConfigs \cup {<<>>}
  /\ poStatus \in {"empty", "loading", "ok", "json_error", "exception", "abort"}
  /\ \A f \in poArith : f[2] \in 0..PoWidth - 1

\* What a reader of the file would require, whatever the order of its objects.
Provided(o) ==
  Registered([pass |-> IF o.sec = "pipeline" THEN "link" ELSE "build", o |-> o])
Stage(o) ==
  CASE o.sec \in ToSet(EarlySections) ->
         CHOOSE k \in 1..Len(EarlySections) : EarlySections[k] = o.sec
    [] o.sec \in ToSet(LateSections) -> 1000
    [] OTHER -> 100 * o.pipe + (IF o.sec = "act_prof" THEN 0 ELSE 1)
UniqueIds(cfg) ==
  \A i, j \in 1..Len(cfg) :
    i # j /\ cfg[i].sec \in WithIds /\ cfg[i].sec = cfg[j].sec
          /\ cfg[i].pipe = cfg[j].pipe => cfg[i].id # cfg[j].id
UniqueNames(cfg) ==
  \A i, j \in 1..Len(cfg) :
    i # j /\ cfg[i].sec \notin {"action", "union_type"} =>
      Provided(cfg[i]) \cap Provided(cfg[j]) = {}
NoDangling(cfg) ==
  \A o \in ToSet(cfg) :
    /\ \A u \in o.uses \cup o.at \cup {<<"action", a>> : a \in o.actions} :
         \E p \in ToSet(cfg) : u \in Provided(p) /\ Stage(p) < Stage(o)
    /\ \A f \in o.fields \cup Enabled(o) :
         f[2] < PoWidth /\ \E p \in ToSet(cfg) : <<"header", f[1]>> \in Provided(p)
    /\ \A n \in o.next : \E p \in ToSet(cfg) :
         <<"node", n>> \in Provided(p) /\ p.pipe <= o.pipe
WellFormed(cfg) ==
  /\ UniqueIds(cfg) /\ UniqueNames(cfg) /\ NoDangling(cfg)
  /\ \A o \in ToSet(cfg) : o.ok /\ ParseStates(o)[1]

\* A file is accepted exactly when ids and names are unique in their scope and
\* every reference can be resolved: the two passes over a pipeline and the order
\* of the sections accept any order of the objects within a section
\* (P4Objects::init_objects).
LoadAcceptsWellFormed ==
  poStatus \notin {"empty", "loading"} => (poStatus = "ok" <=> WellFormed(poCfg))

\* In an accepted program every field that an expression evaluates is kept as a
\* number, and headers whose values are exchanged when a stack is pushed or
\* popped agree on it: Field::swap_values does not exchange arith, so a field
\* that becomes arith in one position only would be read stale in another.
ArithAgrees ==
  poStatus = "ok" =>
    /\ \A o \in ToSet(poCfg) : o.evals \subseteq poArith
    /\ \A s \in ToSet(poCfg), i \in 0..PoWidth - 1 :
         /\ s.sec = "header_stack" =>
              \A g, h \in ToSet(s.members) :
                <<g, i>> \in poArith <=> <<h, i>> \in poArith
         /\ s.sec = "union_stack" =>
              \A u, v \in {o \in ToSet(poCfg) : o.sec = "header_union"
                                              /\ o.name \in ToSet(s.members)} :
                \A k \in 1..Len(u.members) :
                  <<u.members[k], i>> \in poArith <=> <<v.members[k], i>> \in poArith

=============================================================================
