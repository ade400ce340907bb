----------------------------- MODULE Statements -----------------------------
(***************************************************************************)
(* What the statements of a function mean (Doc.md, AI_CONTEXT.md and the   *)
(* checks of src/semantic/semantic.cpp): the reference that the generated  *)
(* code is compared with.                                                  *)
(*                                                                         *)
(* A state of the execution is a stack of what is still to be done,        *)
(* innermost last, and a mode: running, or on the way out of the enclosing *)
(* statements because of break, continue or return.  A region that is left *)
(* ends, whichever way it is left.                                         *)
(***************************************************************************)
EXTENDS Naturals, Sequences

Running(k) == [mode |-> "run", k |-> k]
Leaving(mode, k) == [mode |-> mode, k |-> k]

(* What is observed next: the event, and the state after it (for a test,   *)
(* after the outcome true and after the outcome false).                    *)
Observe(ev, yes, no) == [ev |-> ev, yes |-> yes, no |-> no]
Always(ev, next) == Observe(ev, next, next)

Todo(b) == [f |-> "todo", b |-> b, i |-> 1]

RECURSIVE Pending(_)

(* Running on: the innermost thing to be done. *)
RunTop(k) ==
  LET n == Len(k)
      t == k[n]
      below == SubSeq(k, 1, n - 1)
      s == t.b[t.i]
      rest == Append(below, [t EXCEPT !.i = @ + 1])
  IN  CASE t.f = "todo" /\ t.i > Len(t.b) -> Pending(Running(below))
        [] t.f = "todo" /\ t.i <= Len(t.b) ->
             (CASE s.k = "expr" -> Always(<<"eff", s.id>>, Running(rest))
                [] s.k \in {"store", "load", "addr", "deref"} -> Always(<<s.k, s.id>>, Running(rest))
                [] s.k \in {"return", "break", "continue"} -> Pending(Leaving(s.k, rest))
                [] s.k = "if" -> Pending(Running(Append(rest, [f |-> "arm", s |-> s, i |-> 1])))
                [] s.k = "while" ->
                     Pending(Running(Append(rest, [f |-> "loop", s |-> s, step |-> FALSE])))
                [] s.k = "switch" ->
                     Pending(Running(rest \o <<[f |-> "switch"],
                                               [f |-> "case", s |-> s, c |-> 1, v |-> 1]>>))
                [] s.k = "block" -> Pending(Running(Append(rest, Todo(s.body))))
                [] s.k = "region" ->
                     Always(<<"begin", s.id>>,
                            Running(rest \o <<[f |-> "region", id |-> s.id], Todo(s.body)>>)))
        [] t.f = "arm" /\ t.i <= Len(t.s.arms) ->
             Observe(<<"if", t.s.id, t.i>>,
                     Running(Append(below, Todo(t.s.arms[t.i]))),
                     Running(Append(below, [t EXCEPT !.i = @ + 1])))
        [] t.f = "arm" /\ t.i > Len(t.s.arms) ->
             Pending(Running(IF t.s.els = <<>> THEN below ELSE Append(below, Todo(t.s.els[1]))))
        [] t.f = "loop" /\ ~t.step ->
             Observe(<<"while", t.s.id>>,
                     Running(below \o <<[t EXCEPT !.step = TRUE], Todo(t.s.body)>>),
                     Running(below))
        [] t.f = "loop" /\ t.step ->
             LET again == Running(Append(below, [t EXCEPT !.step = FALSE]))
             IN  IF t.s.step THEN Always(<<"step", t.s.id>>, again) ELSE Pending(again)
        [] t.f = "switch" -> Pending(Running(below))
        [] t.f = "case" /\ t.c <= Len(t.s.cases) ->
             Observe(<<"case", t.s.id, t.c, t.v>>,
                     Running(Append(below, Todo(t.s.cases[t.c].body))),
                     Running(Append(below,
                       IF t.v < t.s.cases[t.c].vals THEN [t EXCEPT !.v = @ + 1]
                       ELSE [t EXCEPT !.c = @ + 1, !.v = 1])))
        [] t.f = "case" /\ t.c > Len(t.s.cases) ->
             Pending(Running(IF t.s.def = <<>> THEN below ELSE Append(below, Todo(t.s.def[1]))))
        [] t.f = "region" -> Always(<<"end", t.id>>, Running(below))

(* On the way out: break stops behind a loop or a switch, continue at a    *)
(* loop, return not at all.                                                *)
LeaveTop(mode, k) ==
  LET t == k[Len(k)]
      below == SubSeq(k, 1, Len(k) - 1)
  IN  CASE t.f = "region" -> Always(<<"end", t.id>>, Leaving(mode, below))
        [] t.f = "loop" /\ mode = "continue" -> Pending(Running(k))
        [] t.f \in {"loop", "switch"} /\ mode = "break" -> Pending(Running(below))
        [] OTHER -> Pending(Leaving(mode, below))

Pending(st) ==
  IF st.k = <<>> THEN Always(<<"ret">>, st)
  ELSE IF st.mode = "run" THEN RunTop(st.k) ELSE LeaveTop(st.mode, st.k)

Start(body) == Running(<<Todo(body)>>)
=============================================================================
