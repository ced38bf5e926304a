----------------------------- MODULE MudCommand -----------------------------
(***************************************************************************)
(* shared/modular/cli/cmdmud.go.  MudCommand.Setup composes the selector  *)
(* with the --components creates the config-tagged components it    *)
(* reaches (a failure panics) and binds their instances to flags.         *)
(* MudCommand.Execute: initialize every component the run selector        *)
(* reaches, in dependency order, run each (a component's Run              *)
(* may start goroutines in one errgroup), wait for the group, and on the  *)
(* way out close the components in reverse order from a goroutine, giving *)
(* it shutdownTimeout before cancelling the close context and waiting on. *)
(*                                                                         *)
(* Components are 1..N; an edge <<c, d>> of Deps says c depends on d, and *)
(* d < c, so ascending order is the dependency order mud.ForEachDependency *)
(* visits the selected components and all they depend on in.  The mud and *)
(* modular packages are outside the sources modelled here; the iteration  *)
(* is taken to stop at the first error the callback returns.  Components *)
(* stop their run goroutines once ctx is cancelled or they are closed,   *)
(* and a Close that waits honours the close context.                      *)
(***************************************************************************)
EXTENDS Naturals, FiniteSets, FiniteSetsExt, Graphs

CONSTANTS
    N,
    Deps,          \* the ball's dependency edges
    ConfigComps,   \* the components tagged config.Config
    Flags,         \* values of --components; "" is the empty string
    FromString,    \* modular.CreateSelectorFromString, per flag value
    Commands,      \* the MudCommands: [selector, runSelector], each a set or Nil
    Nil

Comps == 1..N

ASSUME /\ N \in Nat \ {0}
       /\ Deps \subseteq {e \in Comps \X Comps : e[2] < e[1]}
       /\ ConfigComps \subseteq Comps
       /\ "" \in Flags /\ FromString \in [Flags -> SUBSET Comps \ {{}}]

Ball == [node |-> Comps, edge |-> Deps]

\* The components ForEachDependency visits for a selector, in order.
Reached(sel) == sel \cup UNION {Descendants(Ball, c) : c \in sel}

VisitOrder(sel) == SetToSortSeq(Reached(sel), LAMBDA a, b : a < b)

VARIABLES
    pc,        \* Setup: "start", "setup", "panicked"; Execute: "init", "run",
               \*   "wait", "shutdown", "exited"
    selector,  \* m.selector: a set of components, or Nil
    runSelector, \* m.runSelector: a set of components, or Nil
    visit,     \* the components Execute's loops visit, in order
    i,         \* the component the init or run loop is at
    inited,    \* components whose Init returned nil
    g,         \* run goroutine per component: "none", "running", "ok", "failed"
    err,       \* the error Execute is returning: Nil, "init", "run" or "wait"
    ctxDone,   \* the command's ctx is cancelled (a signal)
    closer,    \* the close goroutine: [pc : "none", "closing", "done",
               \*   at : its position in CloseOrder, blocked : in a waiting Close]
    closed,    \* components whose Close was called
    timedOut,  \* the select took the time.After branch
    closeCancelled, \* cancel() of closeCtx has run
    closeErr,  \* a Close returned an error, ending the reverse walk (ghost)
    result     \* what Execute returned: Nil while it runs, "ok" or "err"

vars == <<pc, selector, runSelector, visit, i, inited, g, err, ctxDone, closer, closed, timedOut,
          closeCancelled, closeErr, result>>

setupVars == <<selector, runSelector, visit>>

NV == Len(visit)

-----------------------------------------------------------------------------
\* Deferred shutdown entered: go func() { done <- ForEachDependencyReverse(...) }
StartShutdown ==
    /\ pc' = "shutdown"
    /\ closer' = [pc |-> "closing", at |-> 1, blocked |-> FALSE]

\* Mutant: Init builds a new instance even when one exists.
InitDoneNever(c) == FALSE

\* mud's Component.Init returns nil at once for an initialized component.
InitDone(c) == c \in inited

\* The init loop moves to the next component, or on to the run loop.
InitAdvance ==
    IF i = NV THEN pc' = "run" /\ i' = 1 ELSE i' = i + 1 /\ UNCHANGED pc

\* ForEachDependency(..., component.Init): a failure returns before the
\* deferred shutdown is installed.
InitComponent ==
    /\ pc = "init"
    /\ LET c == visit[i] IN
       \/ /\ InitDone(c)
          /\ InitAdvance
          /\ UNCHANGED <<inited, err, result>>
       \/ /\ ~InitDone(c)
          /\ inited' = inited \cup {c}
          /\ InitAdvance
          /\ UNCHANGED <<err, result>>
       \/ /\ ~InitDone(c)
          /\ pc' = "exited"
          /\ err' = "init"
          /\ result' = "err"
          /\ UNCHANGED <<i, inited>>
    /\ UNCHANGED <<selector, runSelector, visit, g, ctxDone, closer, closed, timedOut, closeCancelled, closeErr>>

\* if m.selector == nil { m.selector = CreateSelectorFromString(...) }
\* else if selectorStr != "" { m.selector = mud.Or(m.selector, ...) }
ComposeSelector(sel, f) ==
    CASE sel = Nil -> FromString[f]
      [] f # ""    -> sel \cup FromString[f]
      [] OTHER     -> sel

\* Setup reads --components and composes the selector.
SetupSelect ==
    /\ pc = "start"
    /\ \E f \in Flags : selector' = ComposeSelector(selector, f)
    /\ pc' = "setup"
    /\ UNCHANGED <<runSelector, visit, i, inited, g, err, ctxDone, closer,
                   closed, timedOut, closeCancelled, closeErr, result>>

\* The config components Setup's loops reach.
SetupConfigs == Reached(selector) \cap ConfigComps

\* Setup, first loop: ForEachDependency(..., component.Init,
\* mud.Tagged[config.Config]()) visits the config components in dependency
\* order; an error panics.
SetupInit ==
    /\ pc = "setup"
    /\ SetupConfigs \ inited # {}
    /\ LET c == Min(SetupConfigs \ inited)
       IN  \/ /\ inited' = inited \cup {c}
                  /\ UNCHANGED pc
           \/ /\ pc' = "panicked"
              /\ UNCHANGED inited
    /\ UNCHANGED <<selector, runSelector, visit, i, g, err, ctxDone, closer, closed,
                   timedOut, closeCancelled, closeErr, result>>

\* The first loop of Setup has created every config struct.
ConfigsCreated == SetupConfigs \subseteq inited

\* Execute: if m.runSelector == nil { m.runSelector = m.selector }
RunSelectorOf(run, sel) == IF run = Nil THEN sel ELSE run

\* Setup, second loop: bindConfig registers each config component's
\* Instance() as clingy flags; the callback never fails.  Execute follows,
\* settling the run selector first.
SetupBind ==
    /\ pc = "setup"
    /\ ConfigsCreated
    /\ pc' = "init"
    /\ runSelector' = RunSelectorOf(runSelector, selector)
    /\ visit' = VisitOrder(runSelector')
    /\ UNCHANGED <<selector, i, inited, g, err, ctxDone, closer, closed, timedOut,
                   closeCancelled, closeErr, result>>

\* ForEachDependency(..., component.Run(ctx, eg)): Run starts its goroutine
\* in eg, or fails, and Execute returns through the deferred shutdown.
RunComponent ==
    /\ pc = "run"
    /\ \/ /\ g' = [g EXCEPT ![visit[i]] = "running"]
          /\ IF i = NV THEN pc' = "wait" /\ i' = i ELSE i' = i + 1 /\ UNCHANGED pc
          /\ UNCHANGED <<err, closer>>
       \/ /\ err' = "run"
          /\ StartShutdown
          /\ UNCHANGED <<g, i>>
    /\ UNCHANGED <<inited, ctxDone, closed, timedOut, closeCancelled, closeErr, result>>
    /\ UNCHANGED setupVars

\* eg.Wait() returns once every goroutine of the group has returned.
AllStopped == \A c \in Comps : g[c] # "running"

\* return eg.Wait(): the first goroutine error, if any; then the deferred
\* shutdown.
WaitGroup ==
    /\ pc = "wait"
    /\ AllStopped
    /\ err' = IF \E c \in Comps : g[c] = "failed" THEN "wait" ELSE Nil
    /\ StartShutdown
    /\ UNCHANGED <<i, inited, g, ctxDone, closed, timedOut, closeCancelled, closeErr, result>>
    /\ UNCHANGED setupVars

\* A run goroutine returns, with nil or an error.
GoroutineExit(c) ==
    /\ g[c] = "running"
    /\ g' \in {[g EXCEPT ![c] = "ok"], [g EXCEPT ![c] = "failed"]}
    /\ UNCHANGED <<pc, i, inited, err, ctxDone, closer, closed, timedOut,
                   closeCancelled, closeErr, result>>
    /\ UNCHANGED setupVars

\* The command's context is cancelled (SIGINT, SIGTERM).
CancelCtx ==
    /\ ~ctxDone
    /\ ctxDone' = TRUE
    /\ UNCHANGED <<pc, i, inited, g, err, closer, closed, timedOut, closeCancelled, closeErr, result>>
    /\ UNCHANGED setupVars

\* Mutant: the close goroutine walks the components in dependency order.
CloseOrderForward == visit

\* ForEachDependencyReverse: dependents before their dependencies.
CloseOrder == [k \in 1..NV |-> visit[NV + 1 - k]]

\* Mutant: the reverse walk ends one component early.
LastToCloseOffByOne(at) == at >= NV - 1

\* The reverse walk has reached its last component.
LastToClose(at) == at = NV

\* component.Close(closeCtx) called: it returns nil or an error, or waits
\* until closeCtx is cancelled.  An error ends the reverse walk.
CloseComponent ==
    /\ closer.pc = "closing"
    /\ ~closer.blocked
    /\ closed' = closed \cup {CloseOrder[closer.at]}
    /\ \/ /\ closer' = IF LastToClose(closer.at)
                       THEN [closer EXCEPT !.pc = "done"]
                       ELSE [closer EXCEPT !.at = @ + 1]
          /\ UNCHANGED closeErr
       \/ closer' = [closer EXCEPT !.pc = "done"] /\ closeErr' = TRUE
       \/ closer' = [closer EXCEPT !.blocked = TRUE] /\ UNCHANGED closeErr
    /\ UNCHANGED <<pc, i, inited, g, err, ctxDone, timedOut, closeCancelled, result>>
    /\ UNCHANGED setupVars

\* A Close waiting on closeCtx returns after cancel(), with ctx.Err().
CloseReturnsCancelled ==
    /\ closer.pc = "closing"
    /\ closer.blocked
    /\ closeCancelled
    /\ closer' = [closer EXCEPT !.pc = "done", !.blocked = FALSE]
    /\ closeErr' = TRUE
    /\ UNCHANGED <<pc, i, inited, g, err, ctxDone, closed, timedOut, closeCancelled, result>>
    /\ UNCHANGED setupVars

\* case err = <-done: Execute returns the error it was returning; the close
\* error is only printed.
ShutdownDone ==
    /\ pc = "shutdown"
    /\ closer.pc = "done"
    /\ pc' = "exited"
    /\ result' = IF err = Nil THEN "ok" ELSE "err"
    /\ UNCHANGED <<i, inited, g, err, ctxDone, closer, closed, timedOut, closeCancelled,
                   closeErr>>
    /\ UNCHANGED setupVars

\* Mutant: the timeout branch waits on done without calling cancel().
CancelOnTimeoutDropped == FALSE

\* cancel() before err = <-done in the timeout branch.
CancelOnTimeout == TRUE

\* case <-time.After(shutdownTimeout): write the goroutine dump, cancel(),
\* then err = <-done.
ShutdownTimeout ==
    /\ pc = "shutdown"
    /\ ~timedOut
    /\ closer.pc # "done"
    /\ timedOut' = TRUE
    /\ closeCancelled' = CancelOnTimeout
    /\ UNCHANGED <<pc, i, inited, g, err, ctxDone, closer, closed, closeErr, result>>
    /\ UNCHANGED setupVars

Init ==
    /\ pc = "start"
    /\ \E cmd \in Commands :
        selector = cmd.selector /\ runSelector = cmd.runSelector
    /\ visit = <<>>
    /\ i = 1
    /\ inited = {}
    /\ g = [c \in Comps |-> "none"]
    /\ err = Nil
    /\ ctxDone = FALSE
    /\ closer = [pc |-> "none", at |-> 1, blocked |-> FALSE]
    /\ closed = {}
    /\ timedOut = FALSE
    /\ closeCancelled = FALSE
    /\ closeErr = FALSE
    /\ result = Nil

Next ==
    \/ SetupSelect
    \/ SetupInit
    \/ SetupBind
    \/ InitComponent
    \/ RunComponent
    \/ WaitGroup
    \/ \E c \in Comps : GoroutineExit(c)
    \/ CancelCtx
    \/ CloseComponent
    \/ CloseReturnsCancelled
    \/ ShutdownDone
    \/ ShutdownTimeout

(***************************************************************************)
(* Fairness.  Execute, the close goroutine and the timer run whenever     *)
(* they can (WF).  A run goroutine is only assumed to return once ctx is  *)
(* cancelled or its component closed: a service runs until told to stop. *)
(* The signal itself is not assumed.                                      *)
(***************************************************************************)
Fairness ==
    /\ WF_vars(SetupSelect \/ SetupInit \/ SetupBind \/ InitComponent \/ RunComponent \/ WaitGroup \/ ShutdownDone)
    /\ WF_vars(CloseComponent \/ CloseReturnsCancelled)
    /\ WF_vars(ShutdownTimeout)
    /\ \A c \in Comps : WF_vars((ctxDone \/ c \in closed) /\ GoroutineExit(c))

Spec == Init /\ [][Next]_vars /\ Fairness

-----------------------------------------------------------------------------
(***************************************************************************)
(* The close goroutine closes dependents before what they depend on: a   *)
(* component is closed only after every component Execute visited that   *)
(* depends on it was closed.                                              *)
(***************************************************************************)
ClosedInReverseOrder ==
    \A e \in Deps : e[2] \in closed /\ e[1] \in Range(visit) => e[1] \in closed

(***************************************************************************)
(* Once the command's context is cancelled, Execute returns, even when a *)
(* Close waits: the timeout cancels closeCtx and the wait on done ends.   *)
(* A panic in Setup ends the process as well.                             *)
(***************************************************************************)
ReturnsOnceCancelled == ctxDone ~> pc \in {"exited", "panicked"}

(***************************************************************************)
(* Once Init has completed, Execute returns only after every initialized *)
(* component was closed, whether the run phase ended by eg.Wait or by a  *)
(* failing Run, and whether or not the shutdown timed out, unless a Close *)
(* failed or was cancelled (which ends the reverse walk).  An Init error *)
(* returns before the deferred shutdown exists and is the one other way *)
(* out (line 79).  Config components Setup created that the run selector *)
(* does not reach are never visited by Execute, and not closed.           *)
(***************************************************************************)
CleanupComplete ==
    (pc = "exited" /\ err # "init" /\ ~closeErr) => inited \cap Range(visit) \subseteq closed

=============================================================================
