----------------------------- MODULE MCPrograms -----------------------------
(* Instances of what a P4 program is made of: its loading, headers,        *)
(* expressions, value sets, actions, registers, meters and calculations.   *)
(* They share no state in the program, so one run explores each of them    *)
(* alone: active names the one that takes steps, and the others stay in    *)
(* their initial state.                                                    *)
EXTENDS P4Config, PacketHeaders, Expressions, ParseValueSet, Registers,
        Meters, Calculations, Actions, TLC

VARIABLE active

-----------------------------------------------------------------------------
(* P4Config: one program with an object of every section, and what is left *)
(* of it when an object is missing, named twice, moved or broken.          *)
PoBlank == [sec |-> "", name |-> "", id |-> "1", pipe |-> 0, uses |-> {}, at |-> {}, fields |-> {},
  evals |-> {}, members |-> <<>>, states |-> <<>>, next |-> {}, actions |-> {}, own |-> {}, direct |-> FALSE, ok |-> TRUE]
PoObj(sec, name, id) == [PoBlank EXCEPT !.sec = sec, !.name = name, !.id = id]
PoIn(pipe, sec, name, id) == [PoObj(sec, name, id) EXCEPT !.pipe = pipe]
PoHt == {<<"header_type", "ht">>}
PoHdr(name, id) == [PoObj("header", name, id) EXCEPT !.uses = PoHt]
PoBase == <<
 PoObj("enum","E","1"), PoObj("header_type","ht","1"),
 PoHdr("h","1"), PoHdr("s0","2"), PoHdr("s1","3"), PoHdr("a0","4"), PoHdr("b0","5"), PoHdr("a1","6"), PoHdr("b1","7"),
 [PoObj("header_stack","s","1") EXCEPT !.uses = PoHt, !.members = <<"s0","s1">>],
 [PoObj("union_type","ut","1") EXCEPT !.uses = PoHt],
 [PoObj("header_union","u0","1") EXCEPT !.at = {<<"union_type","ut">>}, !.members = <<"a0","b0">>],
 [PoObj("header_union","u1","2") EXCEPT !.at = {<<"union_type","ut">>}, !.members = <<"a1","b1">>],
 [PoObj("union_stack","us","1") EXCEPT !.at = {<<"union_type","ut">>}, !.members = <<"u0","u1">>],
 [PoObj("alias","al","1") EXCEPT !.fields = {<<"h",1>>}],
 [PoObj("extern","x","1") EXCEPT !.fields = {<<"h",0>>}, !.evals = {<<"h",0>>}],
 PoObj("vset","v","1"), PoObj("error","e","1"),
 [PoObj("parser","p","1") EXCEPT !.uses = {<<"vset","v">>}, !.fields = {<<"a1",1>>}, !.evals = {<<"a1",1>>}, !.states = <<<<"st0","1">>,<<"st1","2">>>>],
 [PoObj("deparser","d","1") EXCEPT !.uses = {<<"header","h">>}],
 [PoObj("calculation","c","1") EXCEPT !.fields = {<<"h",1>>}],
 [PoObj("counter","ct","1") EXCEPT !.direct = TRUE],
 [PoObj("meter","m","1") EXCEPT !.direct = TRUE, !.fields = {<<"h",1>>}],
 PoObj("register","r","1"),
 [PoObj("action","A","1") EXCEPT !.uses = {<<"register","r">>}, !.fields = {<<"s0",0>>}, !.evals = {<<"s0",0>>}],
 PoObj("action","A","2"),
 PoObj("pipeline","ing","1") , PoObj("pipeline","egr","2"),
 [PoIn(1,"act_prof","ap","1") EXCEPT !.fields = {<<"h",1>>}],
 [PoIn(1,"table","t1","1") EXCEPT !.fields = {<<"h",0>>}, !.uses={<<"act_prof","ap">>}, !.next = {"c1"}, !.actions={"1","2"}],
 [PoIn(1,"condition","c1","1") EXCEPT !.fields = {<<"s1",1>>}, !.evals = {<<"s1",1>>}, !.next = {"k1"}],
 [PoIn(1,"call","k1","1") EXCEPT !.at = {<<"action","2">>}],
 [PoIn(2,"table","t2","1") EXCEPT !.at = {<<"direct_meter","m">>}, !.own = {"ap2"}, !.next = {"t3"}, !.actions={"1"}],
 [PoIn(2,"table","t3","2") EXCEPT !.next = {}],
 [PoObj("checksum","ck","1") EXCEPT !.uses={<<"calculation","c">>}, !.fields = {<<"h",1>>}, !.evals = {<<"h",1>>}],
 [PoObj("learn_list","l","1") EXCEPT !.fields = {<<"h",1>>}],
 [PoObj("field_list","fl","1") EXCEPT !.fields = {<<"h",0>>}],
 [PoObj("required","rq","1") EXCEPT !.fields = {<<"h",0>>}],
 [PoObj("force_arith","fa","1") EXCEPT !.fields = {<<"b0",1>>}, !.evals = {<<"b0",1>>}] >>
PoProgram == [i \in 1..Len(PoBase) |-> IF PoBase[i].sec # "pipeline" THEN PoBase[i]
   ELSE [PoBase[i] EXCEPT !.pipe = IF PoBase[i].name = "ing" THEN 1 ELSE 2, !.next = IF PoBase[i].name = "ing" THEN {"t1"} ELSE {"t2"}]]
PoReversed(s) == [i \in 1..Len(s) |-> s[Len(s)+1-i]]
PoWithout(s, k) == [i \in 1..Len(s)-1 |-> IF i < k THEN s[i] ELSE s[i+1]]
PoAdjacent == {i \in 1..Len(PoBase)-1 : PoBase[i].sec = PoBase[i+1].sec}
MCPoConfigs == {PoProgram, PoReversed(PoProgram)}
  \cup {PoWithout(PoProgram, k) : k \in 1..Len(PoBase)}
  \cup {[PoProgram EXCEPT ![i].id = PoProgram[i+1].id] : i \in PoAdjacent}
  \cup {[PoProgram EXCEPT ![i].name = PoProgram[i+1].name] : i \in PoAdjacent}
  \cup {[PoProgram EXCEPT ![i].ok = FALSE] : i \in {k \in 1..Len(PoBase) : PoBase[k].sec \in {"extern","action","table","condition","field_list"}}}
  \cup {[PoProgram EXCEPT ![i].next = {n}] : i \in {k \in 1..Len(PoBase) : PoBase[k].sec \in {"table"}}, n \in {"t1","c1","t3","ap"}}
  \cup {[PoProgram EXCEPT ![i].states = <<<<"st0",d>>,<<n,"2">>>>] : i \in {k \in 1..Len(PoBase) : PoBase[k].sec = "parser"}, n \in {"st0","st1"}, d \in {"1","2"}}

-----------------------------------------------------------------------------
(* PacketHeaders: a stack of three headers and a stack of two unions.      *)
MCPhStack == <<"s0","s1","s2">>
MCPhUnions == << <<"a0","b0">>, <<"a1","b1">> >>
MCPhOrder == <<"v","s0","s1","s2","a0","b0","a1","b1">>
MCPhPackets == {<<1,2,3>>}

-----------------------------------------------------------------------------
(* Expressions: trees of up to five levels; both branches of a ternary     *)
(* operator and both sides of an operator hold temporaries.                *)
ExLeaf(op, a) == [op |-> op, arg |-> a, kids |-> <<>>]
ExT1(op, x) == [op |-> op, arg |-> 0, kids |-> <<x>>]
ExT2(op, x, y) == [op |-> op, arg |-> 0, kids |-> <<x, y>>]
ExT3(x, y, z) == [op |-> "?", arg |-> 0, kids |-> <<x, y, z>>]
MCExHeaders == << [valid |-> TRUE, field |-> 3], [valid |-> FALSE, field |-> 1], [valid |-> TRUE, field |-> 3] >>
MCExStacks == << [of |-> <<1,2,3>>, count |-> 2], [of |-> <<1,2>>, count |-> 1] >>
MCExUnions == << [of |-> <<2,1>>, valid |-> 2], [of |-> <<2,3>>, valid |-> 2] >>
MCExLocals == <<2>>
MCExArrays == << <<4, 8>> >>
ExC(v) == ExLeaf("load_const", v)
ExD0 == {ExC(1), ExLeaf("load_field", 1), ExLeaf("load_last", 1), ExLeaf("load_local", 1), ExLeaf("load_register_ref", 1)}
ExSums == {ExT2("+", ExC(1), ExLeaf("load_field", 1)), ExT2("-", ExC(2), ExLeaf("load_local", 1))}
ExH0 == {ExLeaf("load_header", 1), ExLeaf("load_header", 2), ExT2("dereference_header_stack", ExLeaf("load_stack", 1), ExC(2))}
ExU0 == {ExLeaf("load_union", 1), ExT2("dereference_union_stack", ExLeaf("load_stack", 2), ExC(1))}
ExD1 == ExD0 \cup ExSums \cup {ExT1("~", x) : x \in ExSums} \cup {ExT1("-", x) : x \in ExSums}
      \cup {ExT2(op, x, ExC(1)) : op \in {"*", "%", "/", "<<", ">>", "&", "|", "^"}, x \in {ExC(6), ExLeaf("load_field", 1)}}
      \cup {ExT2(op, ExT2("-", ExC(1), ExC(v)), ExC(2)) : op \in {"two_comp_mod", "usat_cast", "sat_cast"}, v \in -4..6}
      \cup {ExT1(op, ExLeaf("load_stack", 1)) : op \in {"size_stack", "last_stack_index"}}
      \cup {[op |-> "load_register_gen", arg |-> 1, kids |-> <<x>>] : x \in {ExC(0), ExT2("-", ExC(2), ExC(1))}}
      \cup {ExT1("access_field", h) : h \in ExH0}
ExB0 == {ExLeaf("load_bool", 0), ExLeaf("load_bool", 1)}
ExB1 == ExB0 \cup {ExT1("valid", h) : h \in ExH0} \cup {ExT2(op, h, ExLeaf("load_header", 3)) : op \in {"==", "!="}, h \in ExH0}
      \cup {ExT2(op, u, ExLeaf("load_union", 2)) : op \in {"==", "!="}, u \in ExU0} \cup {ExT1("valid_union", u) : u \in ExU0}
      \cup {ExT2(op, x, y) : op \in {"==", "!=", ">", "<", ">=", "<="}, x \in ExSums, y \in {ExC(4)} \cup ExSums}
      \cup {ExT2(op, b, c) : op \in {"and", "or", "==", "!="}, b \in ExB0, c \in ExB0} \cup {ExT1("not", b) : b \in ExB0}
      \cup {ExT1("d2b", x) : x \in ExSums}
ExBT == {ExT2("<", x, ExC(4)) : x \in ExSums} \cup ExB0
ExD2 == {ExT3(c, x, y) : c \in ExBT, x \in ExSums \cup {ExC(5)}, y \in ExSums \cup {ExC(9)}}
      \cup {ExT1("b2d", b) : b \in ExB1}
ExD3 == {ExT2("+", x, y) : x \in ExD2, y \in ExSums \cup {ExC(1)}} \cup {ExT2("-", x, y) : x \in ExSums \cup {ExC(1)}, y \in ExD2}
     \cup {ExT2("+", s, ExT2("-", x, y)) : s \in ExSums, x \in ExD2, y \in ExSums}
ExB3 == {ExT2("<", x, y) : x \in ExD2, y \in ExSums}
ExD4 == {ExT3(c, x, ExC(9)) : c \in {ExT2("<", x, ExC(4)) : x \in ExD2}, x \in {ExT2("+", x, y) : x \in ExSums, y \in ExSums}}
MCExTrees == ExD1 \cup ExB1 \cup ExD2 \cup ExD3 \cup ExB3 \cup ExD4

-----------------------------------------------------------------------------
(* ParseValueSet: a two-bit and a one-bit field, a case with a mask.       *)
MCVsWidths == <<2,1>>
MCVsValues == {<<0,0,0>>,<<1,0,1>>,<<0,1,0>>,<<1,1,0>>}
MCVsMasks == << <<1,0,0,1>>, <<>> >>

-----------------------------------------------------------------------------
(* Registers: a read and a write of one array, and a jump over two.        *)
RgPrim(op, a, via, tg) == [op |-> op, array |-> a, via |-> via, target |-> tg]
MCRgActions == { << RgPrim("load", "A", "ref", 0), RgPrim("store", "A", "ref", 0) >>,
            << RgPrim("load", "B", "expr", 0), RgPrim("jump_if_zero", "B", "ref", 5), RgPrim("store", "A", "ref", 0), RgPrim("jump","A","ref", 6), RgPrim("store", "B", "expr", 0) >> }

-----------------------------------------------------------------------------
(* Meters: rates in increasing and in decreasing order.                    *)
MCMtrConfigs == { << [rate|->0,burst|->1], [rate|->1,burst|->2]>>, << [rate|->1,burst|->1], [rate|->0,burst|->1]>> }

-----------------------------------------------------------------------------
(* Calculations: a plain and a reflected CRC, a short and a full key.      *)
CaCrc(p,i,x,a,b) == [poly|->p,init|->i,xorOut|->x,refIn|->a,refOut|->b]
MCCaFirst == CaCrc(3,0,0,FALSE,FALSE)
MCCaConfigs == {MCCaFirst, CaCrc(9,15,5,TRUE,TRUE)}
CaFieldEntry(v,n,ok) == [v|->v,n|->n,valid|->ok]
CaBuilder(e,p) == [entries|->e,payload|->p]
MCCaKeys == {<<1,2>>,<<1,2,3,0,3,2,2,1>>}
MCCaBuilders == {CaBuilder(<<CaFieldEntry(5,3,TRUE),CaFieldEntry(1,1,FALSE),CaFieldEntry(2,2,TRUE)>>,<<>>), CaBuilder(<<CaFieldEntry(1,2,TRUE)>>,<<3,3,2,0,1,2,3,1,3,2>>), CaBuilder(<<>>,<<3,3,3,2,1,3,0,3>>)}

-----------------------------------------------------------------------------
(* Actions: five actions that use every kind of argument.                  *)
ArgOf(ty, v) == [type |-> ty, value |-> v]
ExprArg(f, k) == ArgOf("expression", [f |-> f, k |-> k])
CallOf(op, args) == [op |-> op, args |-> args]
FieldArg(x) == ArgOf("field", x)
ConstArg(x) == ArgOf("hexstr", x)
RuntimeArg(i) == ArgOf("runtime_data", i)
HeaderArg(x) == ArgOf("header", x)
ObjectArg(x) == ArgOf("object", x)
MCAcActions == <<
 <<CallOf("add", <<FieldArg("f"), ExprArg("f", 1), ExprArg("g", 2)>>),
   CallOf("modify_field", <<ArgOf("register_gen", [f |-> "f", k |-> 0]), ExprArg("g", 3)>>),
   CallOf("bit_xor", <<FieldArg("g"), ExprArg("f", 2), ArgOf("register_gen", [f |-> "f", k |-> 0])>>),
   CallOf("register_read", <<FieldArg("f"), ObjectArg("r"), RuntimeArg(1)>>)>>,
 <<CallOf("_jump_if_zero", <<FieldArg("f"), ConstArg(3)>>),
   CallOf("log_msg", <<ArgOf("string", "m2"), ArgOf("parameters_vector", <<ExprArg("f", 1), ConstArg(2)>>)>>),
   CallOf("_jump", <<ConstArg(4)>>),
   CallOf("log_msg", <<ArgOf("string", "m1"), ArgOf("parameters_vector", <<RuntimeArg(1)>>)>>),
   CallOf("subtract_from_field", <<FieldArg("f"), ConstArg(1)>>),
   CallOf("exit", <<>>)>>,
 <<CallOf("mark_to_drop", <<HeaderArg("std")>>), CallOf("add_header", <<HeaderArg("h")>>),
   CallOf("clone", <<ConstArg(1), RuntimeArg(1)>>), CallOf("resubmit", <<ConstArg(2)>>),
   CallOf("generate_digest", <<ConstArg(0), ExprArg("f", 0)>>), CallOf("recirculate", <<RuntimeArg(2)>>)>>,
 <<CallOf("modify_field_rng_uniform", <<FieldArg("f"), ConstArg(1), RuntimeArg(1)>>),
   CallOf("modify_field_with_hash_based_offset", <<FieldArg("g"), ConstArg(1), ObjectArg("calc"), RuntimeArg(2)>>),
   CallOf("execute_meter", <<ObjectArg("m"), FieldArg("f"), FieldArg("f")>>),
   CallOf("count", <<ObjectArg("c"), FieldArg("g")>>), CallOf("truncate", <<RuntimeArg(2)>>),
   CallOf("remove_header", <<HeaderArg("h")>>)>>,
 <<CallOf("register_write", <<ObjectArg("r"), RuntimeArg(1), ExprArg("f", 2)>>),
   CallOf("shift_left", <<FieldArg("f"), ConstArg(1), RuntimeArg(1)>>), CallOf("add_header_fast", <<HeaderArg("h")>>),
   CallOf("assert", <<FieldArg("f")>>), CallOf("drop", <<>>)>> >>
MCAcDatas == {<<0, 1>>, <<3, 0>>}
MCAcHoles == [m1 |-> 1, m2 |-> 2]

-----------------------------------------------------------------------------
ProgramsInit ==
  /\ active \in {"P4Config", "PacketHeaders", "Expressions", "ParseValueSet",
                "Registers", "Meters", "Calculations", "Actions"}
  /\ PoInit /\ PhInit /\ ExInit /\ VsInit /\ RgInit
  /\ MtrInit /\ CaInit /\ AcInit

LoadStep ==
  /\ active = "P4Config" /\ PoNext
  /\ UNCHANGED <<active, phVars, exVars, vsVars, rgVars, mtrVars, caVars,
                 acVars>>

HeaderStep ==
  /\ active = "PacketHeaders" /\ PhNext
  /\ UNCHANGED <<active, poVars, exVars, vsVars, rgVars, mtrVars, caVars,
                 acVars>>

ExpressionStep ==
  /\ active = "Expressions" /\ ExNext
  /\ UNCHANGED <<active, poVars, phVars, vsVars, rgVars, mtrVars, caVars,
                 acVars>>

ValueSetStep ==
  /\ active = "ParseValueSet" /\ VsNext
  /\ UNCHANGED <<active, poVars, phVars, exVars, rgVars, mtrVars, caVars,
                 acVars>>

RegisterStep ==
  /\ active = "Registers" /\ RgNext
  /\ UNCHANGED <<active, poVars, phVars, exVars, vsVars, mtrVars, caVars,
                 acVars>>

MeterStep ==
  /\ active = "Meters" /\ MtrNext
  /\ UNCHANGED <<active, poVars, phVars, exVars, vsVars, rgVars, caVars,
                 acVars>>

CalculationStep ==
  /\ active = "Calculations" /\ CaNext
  /\ UNCHANGED <<active, poVars, phVars, exVars, vsVars, rgVars, mtrVars,
                 acVars>>

ActionStep ==
  /\ active = "Actions" /\ AcNext
  /\ UNCHANGED <<active, poVars, phVars, exVars, vsVars, rgVars, mtrVars,
                 caVars>>

ProgramsNext ==
  \/ LoadStep \/ HeaderStep \/ ExpressionStep \/ ValueSetStep
  \/ RegisterStep \/ MeterStep \/ CalculationStep \/ ActionStep

programsVars ==
  <<active, poVars, phVars, exVars, vsVars, rgVars, mtrVars,
    caVars, acVars>>

ProgramsSpec == ProgramsInit /\ [][ProgramsNext]_programsVars

-----------------------------------------------------------------------------
\* A program is accepted when it is well formed, and what is loaded is consistent
\* (P4Objects.cpp init_objects).
LoadsSound ==
  active = "P4Config" => PoTypeOK /\ LoadAcceptsWellFormed /\ ArithAgrees

\* Evaluating the compiled expression gives what the tree means (expressions.cpp).
ExpressionsSound ==
  active = "Expressions" => ExTypeOK /\ EvalIsMeaning

\* Hashes and checksums are those of one configuration (calculations.cpp).
CalculationsSound ==
  active = "Calculations" => CaTypeOK /\ AnswersAreReference

\* An action does what its JSON says (actions.cpp, primitives.cpp).
ActionsSound ==
  active = "Actions" => AcTypeOK /\ ActionDoesAsWritten

=============================================================================
