-------------------------------- MODULE IRGen --------------------------------
(***************************************************************************)
(* IRGenerator::gen_function, gen_block, gen_stmt and gen_region           *)
(* (src/ir/ir_gen.cpp): how the statements of a void function become a     *)
(* flat list of IR instructions with labels and jumps.                     *)
(*                                                                         *)
(* A block is a sequence of statements.  A statement is a record with its  *)
(* kind k and an id; expressions are opaque, except that a statement may   *)
(* store to or load from a local variable, take its address, or read it    *)
(* through a pointer.  else, default and the step of a for loop are        *)
(* optional: a sequence of at most one block, a Boolean.                   *)
(*                                                                         *)
(* Instructions: eff (an expression with an effect), store, load, addr and *)
(* deref of a local, branch (with the condition it evaluates), jump, label, begin and *)
(* end of a region, ret.  The state of the generator is                    *)
(*   code   current_func->body                                             *)
(*   term   current_terminated                                             *)
(*   label  next_label                                                     *)
(* and env holds break_labels.back() and continue_labels.back().           *)
(***************************************************************************)
EXTENDS Naturals, Sequences

Emit(g, insts) == [g EXCEPT !.code = @ \o insts]
Label(l) == [op |-> "label", l |-> l]
Jump(l) == [op |-> "jump", l |-> l]
Branch(ev, l, m) == [op |-> "branch", ev |-> ev, then |-> l, else |-> m]
Plain(op, ev) == [op |-> op, ev |-> ev]

(* n fresh labels: the next one is g.label. *)
NewLabels(g, n) == [g EXCEPT !.label = @ + n]
Terminated(g, t) == [g EXCEPT !.term = t]

JumpUnlessTerminated(g, l) == IF g.term THEN g ELSE Emit(g, <<Jump(l)>>)

RECURSIVE GenStmts(_, _, _, _), GenBlock(_, _, _), GenStmt(_, _, _),
          GenArms(_, _, _, _, _, _), GenTests(_, _, _, _, _, _),
          GenCases(_, _, _, _, _, _)

(* The loop of gen_block, which stops behind a terminating statement. *)
GenStmts(b, i, g, env) ==
  IF i > Len(b) \/ g.term THEN g
  ELSE GenStmts(b, i + 1, GenStmt(b[i], g, env), env)

GenBlock(b, g, env) ==
  LET inner == GenStmts(b, 1, Terminated(g, FALSE), env)
  IN  Terminated(inner, g.term \/ inner.term)

(* if, else if, else: the arms from the i-th on, all of them ending at     *)
(* end.  all says whether every arm so far terminates.                     *)
GenArms(s, i, end, all, g, env) ==
  LET rest == i < Len(s.arms) \/ s.els # <<>>
      then == g.label
      else == IF rest THEN g.label + 1 ELSE end
      g1 == Emit(NewLabels(g, 2), <<Branch(<<"if", s.id, i>>, then, else), Label(then)>>)
      g2 == GenBlock(s.arms[i], Terminated(g1, FALSE), env)
      g3 == JumpUnlessTerminated(g2, end)
      g4 == IF rest THEN Emit(g3, <<Label(else)>>) ELSE g3
      all1 == all /\ g2.term
      g5 == GenBlock(s.els[1], Terminated(g4, FALSE), env)
      done(h, t) == Terminated(Emit(h, <<Label(end)>>), t)
  IN  IF i < Len(s.arms) THEN GenArms(s, i + 1, end, all1, g4, env)
      ELSE IF s.els = <<>> THEN done(g4, FALSE)
      ELSE done(JumpUnlessTerminated(g5, end), all1 /\ g5.term)

GenIf(s, g, env) == GenArms(s, 1, g.label, TRUE, NewLabels(g, 1), env)

(* Fault: continue goes to the condition of a for loop, not to its step. *)
GenWhileNoStep(s, g, env) ==
  LET g1 == Emit(NewLabels(g, 4),
                 <<Jump(g.label), Label(g.label),
                   Branch(<<"while", s.id>>, g.label + 1, g.label + 2), Label(g.label + 1)>>)
      g2 == GenBlock(s.body, Terminated(g1, FALSE), [brk |-> g.label + 2, cont |-> g.label])
      g3 == IF s.step THEN Terminated(Emit(g2, <<Plain("eff", <<"step", s.id>>)>>), FALSE) ELSE g2
  IN  Terminated(Emit(JumpUnlessTerminated(g3, g.label), <<Label(g.label + 2)>>), FALSE)

(* while, and for with its step in for_step: continue goes to the step. *)
GenWhile(s, g, env) ==
  LET cond == g.label
      body == g.label + 1
      end == g.label + 2
      cont == IF s.step THEN g.label + 3 ELSE cond
      g1 == Emit(NewLabels(g, 4),
                 <<Jump(cond), Label(cond), Branch(<<"while", s.id>>, body, end), Label(body)>>)
      g2 == GenBlock(s.body, Terminated(g1, FALSE), [brk |-> end, cont |-> cont])
      g3 == IF s.step
            THEN Terminated(Emit(g2, <<Label(cont), Plain("eff", <<"step", s.id>>)>>), FALSE)
            ELSE g2
  IN  Terminated(Emit(JumpUnlessTerminated(g3, cond), <<Label(end)>>), FALSE)

(* The comparisons with the values of one case, from the v-th on. *)
GenTests(s, c, v, body, after, g) ==
  LET ev == <<"case", s.id, c, v>>
  IN  IF v = s.cases[c].vals
      THEN Emit(g, <<Branch(ev, body, after)>>)
      ELSE GenTests(s, c, v + 1, body, after,
             Emit(NewLabels(g, 1), <<Branch(ev, body, g.label), Label(g.label)>>))

GenCases(s, c, end, all, g, env) ==
  IF c > Len(s.cases) THEN [g |-> g, all |-> all]
  ELSE LET body == g.label
           after == g.label + 1
           g1 == Emit(GenTests(s, c, 1, body, after, NewLabels(g, 2)), <<Label(body)>>)
           g2 == GenBlock(s.cases[c].body, Terminated(g1, FALSE), env)
           g3 == Emit(JumpUnlessTerminated(g2, end), <<Label(after)>>)
       IN  GenCases(s, c + 1, end, all /\ g2.term, g3, env)

(* switch: break leaves it, continue belongs to the loop around it. *)
GenSwitch(s, g, env) ==
  LET end == g.label
      env1 == [env EXCEPT !.brk = end]
      g1 == Emit(NewLabels(g, 2), <<Label(g.label + 1)>>)
      cs == GenCases(s, 1, end, TRUE, g1, env1)
      g2 == GenBlock(s.def[1], Terminated(cs.g, FALSE), env1)
      g3 == IF s.def = <<>> THEN cs.g ELSE JumpUnlessTerminated(g2, end)
  IN  Terminated(Emit(g3, <<Label(end)>>), s.def # <<>> /\ cs.all /\ g2.term)

(* gen_region: the region's end is emitted behind its body. *)
GenRegion(s, g, env) ==
  LET r == <<"region", s.id>>
      g1 == Emit(g, <<[op |-> "store", ev |-> <<"slot", s.id>>, x |-> r],
                      [op |-> "begin", ev |-> <<"begin", s.id>>, x |-> r]>>)
      g2 == GenBlock(s.body, g1, env)
  IN  Emit(g2, <<[op |-> "end", ev |-> <<"end", s.id>>, x |-> r]>>)

GenStmt(s, g, env) ==
  IF g.term THEN g
  ELSE CASE s.k = "expr" -> Emit(g, <<Plain("eff", <<"eff", s.id>>)>>)
         [] s.k \in {"store", "load", "addr", "deref"} ->
              Emit(g, <<[op |-> s.k, ev |-> <<s.k, s.id>>, x |-> s.x]>>)
         [] s.k = "return" -> Terminated(Emit(g, <<Plain("ret", <<"ret">>)>>), TRUE)
         [] s.k = "break" -> Terminated(Emit(g, <<Jump(env.brk)>>), TRUE)
         [] s.k = "continue" -> Terminated(Emit(g, <<Jump(env.cont)>>), TRUE)
         [] s.k = "if" -> GenIf(s, g, env)
         [] s.k = "while" -> GenWhile(s, g, env)
         [] s.k = "switch" -> GenSwitch(s, g, env)
         [] s.k = "block" -> GenBlock(s.body, g, env)
         [] s.k = "region" -> GenRegion(s, g, env)

(* gen_function of a void function: a return at the end unless the body    *)
(* terminates.                                                             *)
GenFunction(body) ==
  LET g == GenBlock(body, [code |-> <<>>, term |-> FALSE, label |-> 1], [brk |-> 0, cont |-> 0])
  IN  IF g.term THEN g.code ELSE Append(g.code, Plain("ret", <<"ret">>))

=============================================================================
