----------------------------- MODULE Exceptions -----------------------------
(***************************************************************************)
(* The exceptions of util.h and util.c, in a thread that nests TRY blocks, *)
(* ON_ERROR and FINALLY blocks, and raises exceptions anywhere, in these   *)
(* blocks too.  There are two stacks: the one of the thread, with what it  *)
(* is executing, and the one of the exception frames, which are variables  *)
(* on the former.                                                          *)
(***************************************************************************)
EXTENDS Integers, Sequences, SequencesExt

CONSTANTS MaxDepth, MaxHandlers   \* bounds on nesting and on the blocks of a frame

ASSUME ExceptionsAssumption == MaxDepth \in Nat \ {0} /\ MaxHandlers \in Nat

VARIABLES
  cstack,   \* what the thread is executing, innermost last
  context   \* the exception frames, innermost last

evars == <<cstack, context>>

----------------------------------------------------------------------------
\* Code of the program, and calls of exception_unwind().
Code(kind, frame) == [kind |-> kind, frame |-> frame]
Unwind(frame, err) == [kind |-> "unwind", frame |-> frame, errcode |-> err, captured |-> FALSE]

Top == Last(cstack)
Running == Top.kind # "unwind"

\* The number of blocks of a frame that are still to be executed, and of all
\* the FINALLY blocks that were reached and that were executed.
NewFrame == [catchers |-> 0, finalizers |-> 0, reached |-> 0, ran |-> 0,
             jbuf |-> Len(cstack) + 1]

ExceptionsInit == cstack = <<Code("main", 0)>> /\ context = <<>>

\* TRY_WITH() and __exc_push_frame().
TRY_WITH ==
  /\ Running /\ Len(cstack) < MaxDepth
  /\ context' = Append(context, NewFrame)
  /\ cstack' = Append(cstack, Code("body", Len(context) + 1))

ON_ERROR ==
  /\ Top.kind = "body" /\ context[Top.frame].catchers < MaxHandlers
  /\ context' = [context EXCEPT ![Top.frame].catchers = @ + 1]
  /\ UNCHANGED cstack

FINALLY ==
  /\ Top.kind = "body" /\ context[Top.frame].finalizers < MaxHandlers
  /\ context' = [context EXCEPT ![Top.frame].finalizers = @ + 1, ![Top.frame].reached = @ + 1]
  /\ UNCHANGED cstack

\* Back to the TRY block of the innermost frame, and from there, by
\* __exc_try(), to exception_unwind().
longjmp(frames) ==
  Append(SubSeq(cstack, 1, Last(frames).jbuf - 1), Unwind(Len(frames), 1))

\* Without a frame raise_exception() returns.
raise_exception ==
  /\ Running /\ context # <<>>
  /\ cstack' = longjmp(context)
  /\ UNCHANGED context

\* The end of the TRY block.
exc_exit_try ==
  /\ Top.kind = "body"
  /\ context' = [context EXCEPT ![Len(context)].catchers = 0]
  /\ cstack' = Append(Front(cstack), Unwind(Len(context), 0))

\* Mutant: a block is taken off its list after it has been executed.
popped_late(frame) == frame

\* The FINALLY block is taken off the list, just in case it throws.
popped(frame) == [frame EXCEPT !.finalizers = @ - 1]

\* exception_unwind() executes a block: an ON_ERROR block if there is one.
unwind_call ==
  LET f == Top.frame  frame == context[f] IN
  /\ Top.kind = "unwind"
  /\ frame.catchers > 0 \/ frame.finalizers > 0
  /\ context' = [context EXCEPT ![f] = IF frame.catchers > 0 THEN [frame EXCEPT !.catchers = @ - 1]
                                       ELSE [popped(frame) EXCEPT !.ran = @ + 1]]
  /\ cstack' = Append(IF frame.catchers > 0 THEN Append(Front(cstack), [Top EXCEPT !.captured = TRUE])
                      ELSE cstack, Code("handler", f))

\* The block returns.
handler_return ==
  /\ Top.kind = "handler"
  /\ cstack' = Front(cstack)
  /\ UNCHANGED context

\* Mutant: an exception is passed on with its frame still there.
outer_frames_same(f) == context

outer_frames(f) == SubSeq(context, 1, f - 1)

\* The end of exception_unwind(): pop the frame, and pass on an exception
\* that was not handled.
unwind_return ==
  LET f == Top.frame IN
  /\ Top.kind = "unwind" /\ context[f].catchers = 0 /\ context[f].finalizers = 0
  /\ context' = outer_frames(f)
  /\ cstack' = IF Top.errcode # 0 /\ ~Top.captured /\ context' # <<>>
               THEN longjmp(context') ELSE Front(cstack)

ExceptionsNext ==
  \/ TRY_WITH \/ ON_ERROR \/ FINALLY \/ raise_exception \/ exc_exit_try
  \/ unwind_call \/ handler_return \/ unwind_return

ExceptionsSpec == ExceptionsInit /\ [][ExceptionsNext]_evars

----------------------------------------------------------------------------
\* The exception frames are those of the TRY blocks that are being executed
\* or left, in this order, so that no longjmp() goes to a function that has
\* returned; and every FINALLY block that was reached is still to be executed
\* or has been, once, even if it, or another one, raises an exception
\* (exception_unwind()).
UnwindSound ==
  /\ {context[f].jbuf : f \in DOMAIN context} =
       {i \in DOMAIN cstack : cstack[i].kind \in {"body", "unwind"}}
  /\ \A f, g \in DOMAIN context : f < g => context[f].jbuf < context[g].jbuf
  /\ \A f \in DOMAIN context :
       /\ cstack[context[f].jbuf].frame = f
       /\ context[f].finalizers + context[f].ran = context[f].reached
=============================================================================
