------------------------------ MODULE DnsGuard ------------------------------
(***************************************************************************)
(* The DNS of the computer: who points it at Guardiana, who gives it back, *)
(* and the copy that makes giving it back possible (crates/cli/src/        *)
(* engine.rs, crates/cli/src/dns_cmd.rs, crates/panel/src/api.rs,          *)
(* crates/service/src/sysdns).                                             *)
(*                                                                         *)
(* Inside the service one change runs at a time: the panel's apply and     *)
(* restore, the watch of every minute, stepping aside while the upstreams  *)
(* are silent, and giving the DNS back at the end all hold CAMBIO, so the  *)
(* service is one actor with one task.  `guardiana dns` is a process of    *)
(* its own, which CAMBIO does not reach: the second actor.  Each setting   *)
(* written and each link changed is a step.                                *)
(*                                                                         *)
(* A copy is the set of links it can put back; the empty one is no copy.   *)
(* The resolvers of a link are its own or Guardiana alone, as on Windows.  *)
(* Standing aside when a licence ended is left out: the level that is free *)
(* keeps the program working.                                              *)
(***************************************************************************)
EXTENDS Naturals, FiniteSets

CONSTANTS
    Links,     \* the interfaces of the computer
    Terminal,  \* TRUE: `guardiana dns` is used besides the panel
    Arrives,   \* TRUE: an interface may appear later
    Drops,     \* TRUE: the network may put a link's own resolvers back
    Fails,     \* TRUE: a command of the system may fail on a link
    Crashes    \* the tasks at which a process may die; "none" is between them

ASSUME DnsGuardAssumption ==
    /\ {Terminal, Arrives, Drops, Fails} \subseteq BOOLEAN
    /\ Crashes \subseteq {"none", "watch", "back", "aside", "give", "apply", "restore"}

VARIABLES
    copy,     \* settings.dns_backup
    dns,      \* what each link asks
    phase,    \* the service: see Phases
    aside,    \* Aparte.apartado
    panel,    \* the panel's request that has read the copy: [asks, seen]
    act,      \* what each actor is doing: [task, step, plan, todo, failed]
    net,      \* the upstreams answer
    orderly   \* since the service was asked to stop, its last undo did not fail

guardVars == <<copy, dns, phase, aside, panel, act, net, orderly>>

Service == "service"
Shell == "terminal"
Actors == IF Terminal THEN {Service, Shell} ELSE {Service}

Phases == {"down",      \* no process
           "starting",  \* the resolver listens, the DNS is about to be pointed
           "up",        \* panel and watch
           "leaving",   \* asked to stop: watch and panel gone, resolver still there
           "closed"}    \* the resolver is gone

Tasks == {"none", "watch", "back", "aside", "give", "apply", "restore"}
Steps == {"none", "point", "store", "apply", "check", "clear", "undo"}
Job == [task : Tasks, step : Steps, plan : SUBSET Links, todo : SUBSET Links,
        failed : BOOLEAN]
NoJob == [task |-> "none", step |-> "none", plan |-> {}, todo |-> {}, failed |-> FALSE]
NoRequest == [asks |-> "none", seen |-> {}]

Begin(task, step, plan) ==
    [task |-> task, step |-> step, plan |-> plan, todo |-> plan, failed |-> FALSE]

Idle(a) == act[a].task = "none"

-----------------------------------------------------------------------------
Own == {i \in Links : dns[i] = "own"}
Pointing == {i \in Links : dns[i] = "guardian"}

\* Mutant of Dropped: only when nothing at all points here.
DroppedWhole == Pointing = {}

\* guardian_is_primary() == Some(false): some link present asks somebody else.
Dropped == Own # {}

\* guardian_is_primary() == Some(true).
Primary == Pointing # {} /\ Own = {}

\* Mutant of StillSet: it takes every link.
StillSetWhole == Pointing # {} /\ Own = {}

\* guardian_still_set(): some link asks Guardiana.
StillSet == Pointing # {}

\* Setting a link that is not there changes nothing.
Set(i, to) == [dns EXCEPT ![i] = IF @ = "absent" THEN @ ELSE to]

GuardInit ==
    /\ copy = {} /\ aside = FALSE /\ phase = "down"
    /\ dns \in [Links -> IF Arrives THEN {"own", "absent"} ELSE {"own"}]
    /\ panel = NoRequest
    /\ act = [a \in Actors |-> NoJob]
    /\ net = TRUE /\ orderly = FALSE

-----------------------------------------------------------------------------
\* A pass starts: the resolver listens.  One that cannot (port 53 taken) goes
\* straight to the end of `run`.
Start ==
    /\ phase = "down"
    /\ phase' \in {"starting", "closed"}
    /\ aside' = FALSE /\ orderly' = FALSE
    /\ UNCHANGED <<copy, dns, panel, act, net>>

\* The pass is rebuilt (another network, Home Mode switched): the next one
\* starts with a new Aparte.
Rebuild ==
    /\ phase = "up" /\ Idle(Service) /\ panel = NoRequest
    /\ phase' = "starting" /\ aside' = FALSE
    /\ UNCHANGED <<copy, dns, panel, act, net, orderly>>

\* reapply_dns_if_dropped, when the pass starts and every minute: the copy is
\* read with the lock held.
Watch ==
    /\ Idle(Service)
    /\ phase = "starting" \/ (phase = "up" /\ ~aside)
    /\ IF copy = {} THEN phase' = "up" /\ UNCHANGED act
       ELSE /\ act' = [act EXCEPT ![Service] = Begin("watch", "point", copy)]
            /\ UNCHANGED phase
    /\ UNCHANGED <<copy, dns, aside, panel, net, orderly>>

\* A silent minute: devolver_por_silencio, and aside whatever came of it.
StepAside ==
    /\ phase = "up" /\ Idle(Service) /\ ~aside /\ ~net
    /\ aside' = TRUE
    /\ act' = IF copy # {} /\ StillSet
              THEN [act EXCEPT ![Service] = Begin("aside", "undo", copy)] ELSE act
    /\ UNCHANGED <<copy, dns, phase, panel, net, orderly>>

\* Already aside and still silent: it is given back again if it points here.
StepAsideAgain ==
    /\ phase = "up" /\ Idle(Service) /\ aside /\ ~net
    /\ Primary /\ copy # {}
    /\ act' = [act EXCEPT ![Service] = Begin("aside", "undo", copy)]
    /\ UNCHANGED <<copy, dns, phase, aside, panel, net, orderly>>

\* volver_con_arriba.
ComeBack ==
    /\ phase = "up" /\ Idle(Service) /\ aside /\ net
    /\ IF copy = {} THEN aside' = FALSE /\ UNCHANGED act
       ELSE /\ act' = [act EXCEPT ![Service] = Begin("back", "point", copy)]
            /\ UNCHANGED aside
    /\ UNCHANGED <<copy, dns, phase, panel, net, orderly>>

\* Asked to stop: the watch and the panel finish what they began.
BeginStop ==
    /\ phase = "up" /\ Idle(Service) /\ panel = NoRequest
    /\ phase' = "leaving"
    /\ UNCHANGED <<copy, dns, aside, panel, act, net, orderly>>

\* Mutant of AfterGiving: a phase of its own after the second time.
AfterGivingStopped == IF phase = "leaving" THEN "closed" ELSE "stopped"

AfterGiving == IF phase = "leaving" THEN "closed" ELSE "down"

\* give_dns_back_while_stopped, before the resolver closes and once more after.
GiveBack ==
    /\ phase \in {"leaving", "closed"} /\ Idle(Service)
    /\ IF copy # {} /\ StillSet
       THEN /\ act' = [act EXCEPT ![Service] = Begin("give", "undo", copy)]
            /\ UNCHANGED <<phase, orderly>>
       ELSE phase' = AfterGiving /\ orderly' = TRUE /\ UNCHANGED act
    /\ UNCHANGED <<copy, dns, aside, panel, net>>

-----------------------------------------------------------------------------
\* dns_aplicar and dns_restaurar, one at a time (dns_cambio), up to CAMBIO: the
\* copy is looked at.
PanelAsks(what) ==
    /\ phase = "up" /\ panel = NoRequest /\ act[Service].task \notin {"apply", "restore"}
    /\ (what = "apply") <=> (copy = {})
    /\ panel' = [asks |-> what, seen |-> copy]
    /\ UNCHANGED <<copy, dns, phase, aside, act, net, orderly>>

\* The lock is taken: an apply takes its snapshot, which holds only links that
\* ask somebody else, and ends if there is none; a restore goes on with the
\* copy it saw.
PanelBegins ==
    /\ Idle(Service) /\ panel # NoRequest
    /\ act' = [act EXCEPT ![Service] =
                  IF panel.asks = "restore" THEN Begin("restore", "clear", panel.seen)
                  ELSE IF Own = {} THEN NoJob ELSE Begin("apply", "store", Own)]
    /\ panel' = NoRequest
    /\ UNCHANGED <<copy, dns, phase, aside, net, orderly>>

\* guardiana dns --apply: only with no copy and while something listens.
ShellApplies ==
    /\ Terminal /\ Idle(Shell)
    /\ copy = {} /\ phase \in {"starting", "up", "leaving"} /\ Own # {}
    /\ act' = [act EXCEPT ![Shell] = Begin("apply", "store", Own)]
    /\ UNCHANGED <<copy, dns, phase, aside, panel, net, orderly>>

\* guardiana dns --restore.
ShellRestores ==
    /\ Terminal /\ Idle(Shell) /\ copy # {}
    /\ act' = [act EXCEPT ![Shell] = Begin("restore", "clear", copy)]
    /\ UNCHANGED <<copy, dns, phase, aside, panel, net, orderly>>

-----------------------------------------------------------------------------
\* What the end of a service's task does to the phase.
PhaseAfter(a) ==
    IF a # Service THEN phase
    ELSE IF act[a].task = "give" THEN AfterGiving
    ELSE IF phase = "starting" THEN "up" ELSE phase

End(a) == act' = [act EXCEPT ![a] = NoJob] /\ phase' = PhaseAfter(a)

\* reapuntar: the interfaces that appeared join the copy before anything
\* changes.  The watch does it only when the DNS was dropped.
Point(a) ==
    /\ act[a].step = "point"
    /\ LET joined == act[a].plan \cup Own
       IN  IF act[a].task = "watch" /\ ~Dropped THEN End(a) /\ UNCHANGED copy
           ELSE /\ act' = [act EXCEPT ![a] = Begin(@.task, "apply", joined)]
                /\ copy' = IF joined # act[a].plan THEN joined ELSE copy
                /\ UNCHANGED phase
    /\ UNCHANGED <<dns, aside, panel, net, orderly>>

\* The copy is kept before anything changes.
KeepCopy(a) ==
    /\ act[a].step = "store"
    /\ copy' = act[a].plan
    /\ act' = [act EXCEPT ![a].step = "apply"]
    /\ UNCHANGED <<dns, phase, aside, panel, net, orderly>>

\* sysdns::apply, link by link.
ApplyLink(a, i) ==
    /\ act[a].step = "apply" /\ i \in act[a].todo
    /\ act' = [act EXCEPT ![a].todo = @ \ {i}]
    /\ dns' = Set(i, "guardian")
    /\ UNCHANGED <<copy, phase, aside, panel, net, orderly>>

\* It stops at the first link that fails: a change the person asked for is
\* undone, the watch leaves it for the next minute.
ApplyFails(a, i) ==
    /\ Fails /\ act[a].step = "apply" /\ i \in act[a].todo /\ dns[i] # "absent"
    /\ IF act[a].task = "apply"
       THEN act' = [act EXCEPT ![a] = Begin("apply", "undo", @.plan)] /\ UNCHANGED phase
       ELSE End(a)
    /\ UNCHANGED <<copy, dns, aside, panel, net, orderly>>

\* Every link is set.  The terminal still asks whether queries arrive.
ApplyDone(a) ==
    /\ act[a].step = "apply" /\ act[a].todo = {}
    /\ aside' = IF act[a].task = "back" THEN FALSE ELSE aside
    /\ IF a = Shell THEN act' = [act EXCEPT ![a].step = "check"] /\ UNCHANGED phase
       ELSE End(a)
    /\ UNCHANGED <<copy, dns, panel, net, orderly>>

\* system_reaches_guardian: if they do not, the change is undone as --restore
\* does.
ShellChecks(a) ==
    /\ act[a].step = "check"
    /\ act' \in {[act EXCEPT ![a] = NoJob],
                 [act EXCEPT ![a] = Begin("restore", "clear", @.plan)]}
    /\ UNCHANGED <<copy, dns, phase, aside, panel, net, orderly>>

\* Before undoing, the copy goes, or the watch would point the machine here
\* again.
ClearCopy(a) ==
    /\ act[a].step = "clear"
    /\ copy' = {}
    /\ act' = [act EXCEPT ![a].step = "undo"]
    /\ UNCHANGED <<dns, phase, aside, panel, net, orderly>>

\* sysdns::restore: every link, whatever happens to the others.
UndoLink(a, i) ==
    /\ act[a].step = "undo" /\ i \in act[a].todo
    /\ act' = [act EXCEPT ![a].todo = @ \ {i}]
    /\ dns' = Set(i, "own")
    /\ UNCHANGED <<copy, phase, aside, panel, net, orderly>>

UndoFails(a, i) ==
    /\ Fails /\ act[a].step = "undo" /\ i \in act[a].todo /\ dns[i] # "absent"
    /\ act' = [act EXCEPT ![a].todo = @ \ {i}, ![a].failed = TRUE]
    /\ UNCHANGED <<copy, dns, phase, aside, panel, net, orderly>>

\* Mutant of CopyAfterUndo: whatever came of it, there is nothing to undo any
\* more (before 1 Oct 2026).
CopyAfterUndoGone(a) == IF act[a].task \in {"apply", "restore"} THEN {} ELSE copy

\* A change that was rolled back takes its copy with it, and an undo that
\* failed puts the copy back.
CopyAfterUndo(a) ==
    CASE act[a].task = "apply" -> IF act[a].failed THEN copy ELSE {}
      [] act[a].task = "restore" -> IF act[a].failed THEN act[a].plan ELSE copy
      [] OTHER -> copy

UndoDone(a) ==
    /\ act[a].step = "undo" /\ act[a].todo = {}
    /\ copy' = CopyAfterUndo(a)
    /\ orderly' = IF act[a].task = "give" THEN ~act[a].failed ELSE orderly
    /\ End(a)
    /\ UNCHANGED <<dns, aside, panel, net>>

-----------------------------------------------------------------------------
\* A process dies; the lock and whatever it was doing go with it.
Crash(a) ==
    /\ act[a].task \in Crashes
    /\ act' = [act EXCEPT ![a] = NoJob]
    /\ IF a = Service
       THEN /\ phase # "down" /\ phase' = "down"
            /\ aside' = FALSE /\ panel' = NoRequest /\ orderly' = FALSE
       ELSE ~Idle(a) /\ UNCHANGED <<phase, aside, panel, orderly>>
    /\ UNCHANGED <<copy, dns, net>>

\* The network puts a link's own resolvers back (a lease renewed).
Renews(i) ==
    /\ Drops /\ dns[i] = "guardian"
    /\ dns' = [dns EXCEPT ![i] = "own"]
    /\ UNCHANGED <<copy, phase, aside, panel, act, net, orderly>>

Appears(i) ==
    /\ dns[i] = "absent"
    /\ dns' = [dns EXCEPT ![i] = "own"]
    /\ UNCHANGED <<copy, phase, aside, panel, act, net, orderly>>

NetFlips == net' = ~net /\ UNCHANGED <<copy, dns, phase, aside, panel, act, orderly>>

TaskStep(a) ==
    \/ Point(a) \/ KeepCopy(a) \/ ApplyDone(a) \/ ShellChecks(a) \/ ClearCopy(a) \/ UndoDone(a)
    \/ \E i \in Links : ApplyLink(a, i) \/ ApplyFails(a, i) \/ UndoLink(a, i) \/ UndoFails(a, i)

Minute == Watch \/ StepAside \/ StepAsideAgain \/ ComeBack

GuardNext ==
    \/ Start \/ Rebuild \/ BeginStop \/ GiveBack
    \/ Minute
    \/ \E what \in {"apply", "restore"} : PanelAsks(what)
    \/ PanelBegins
    \/ ShellApplies \/ ShellRestores
    \/ \E a \in Actors : TaskStep(a)
    \/ \E a \in Actors : Crash(a)
    \/ \E i \in Links : Renews(i) \/ Appears(i)
    \/ NetFlips

\* A task goes on, a request gets the lock and the minute comes round although
\* the other takes it too (one is a person's, the other waits a minute between
\* its turns: the lock is mostly free), a stop is carried out, and a command
\* that may fail works now and then on each link.
GuardFairness ==
    /\ \A a \in Actors : WF_guardVars(TaskStep(a))
    /\ SF_guardVars(Minute)
    /\ SF_guardVars(PanelBegins)
    /\ WF_guardVars(GiveBack)
    /\ \A i \in Links : SF_guardVars(ApplyLink(Service, i)) /\ SF_guardVars(UndoLink(Service, i))

GuardSpec == GuardInit /\ [][GuardNext]_guardVars /\ GuardFairness

-----------------------------------------------------------------------------
\* Copy, links, phase, request and every actor's job keep their types.
GuardTypeOK ==
    /\ copy \subseteq Links
    /\ dns \in [Links -> {"absent", "own", "guardian"}]
    /\ phase \in Phases
    /\ aside \in BOOLEAN /\ net \in BOOLEAN /\ orderly \in BOOLEAN
    /\ panel \in [asks : {"none", "apply", "restore"}, seen : SUBSET Links]
    /\ act \in [Actors -> Job]

\* A link is never left asking Guardiana without a copy that puts it back: with
\* nobody in the middle of a change, every link that points here is in the copy.
NothingWithoutCopy == (\A a \in Actors : Idle(a)) => Pointing \subseteq copy

\* From before the resolver closes until the next start, a stop whose undo did
\* not fail leaves no link asking a port nobody answers.
StopGivesBack ==
    phase \in {"closed", "down"} /\ orderly /\ Idle(Service) => Pointing = {}

\* From some moment on no command fails and the network drops nothing.
Fault == \E i \in Links : \/ Renews(i)
                         \/ \E a \in Actors : ApplyFails(a, i) \/ UndoFails(a, i)
Calm == <>[][~Fault]_guardVars

\* While the service is up, upstreams answer and the person's choice stands, the
\* machine ends up pointed here, whatever was dropped or failed before.
PointedAgain ==
    Calm /\ <>[](phase = "up" /\ net /\ copy # {}) => <>[](Own = {})

=============================================================================
