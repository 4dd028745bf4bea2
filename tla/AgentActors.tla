---------------------------- MODULE AgentActors ----------------------------
(***************************************************************************)
(* The agent as a tree of actors: the stream actor fetches plans and sends *)
(* them to the node supervisor, which talks to one instance actor per      *)
(* instance through its mailbox.                                           *)
(***************************************************************************)
EXTENDS InstanceManager

CONSTANTS
    MaxActors,  \* bound on instance actors spawned
    MaxRevs,    \* bound on plans the supervisor applies
    BoxCap,     \* capacity of a mailbox
    ChanCap     \* capacity of the plan channel

VARIABLES
    actors,     \* instance actors ever spawned, by number
    handles,    \* NodeSupervisor.instance_handles: [Insts -> actor number or None]
    pending,    \* pending_instances: [Insts -> release or None]
    rev,        \* spec_revision
    chan,       \* the channel of plans
    stream,     \* the stream actor: connection and last cursor published
    work,       \* assignments of the plan being applied still to be sent
    imageActor, \* whether image_handle is there; start() always makes it
    up          \* the supervisor's loop has not been told to shut down

avars == <<actors, handles, pending, rev, chan, stream, work, imageActor, up>>

NoWork == [on |-> FALSE, stops |-> {}, wants |-> {}, want |-> <<>>]

ActorsInit ==
    /\ actors = <<>>
    /\ handles = [i \in Insts |-> None]
    /\ pending = [i \in Insts |-> None]
    /\ rev = 0
    /\ chan = <<>>
    /\ stream = [state |-> "disconnected", cursor |-> 0]
    /\ work = NoWork
    /\ imageActor \in BOOLEAN
    /\ up = TRUE

\* Which actors are the guests' and the manager's business.
Rest == UNCHANGED <<cfgs, wire, statuses, old, said, insts, job, cursor>>

----------------------------------------------------------------------------
(* ControlPlaneStreamActor.                                                *)

\* fetch_and_publish_plan: a plan that finds the channel full is not remembered as published.
Publish(st) ==
    IF plan.cursor < st.cursor \/ Len(chan) >= ChanCap
    THEN chan' = chan /\ stream' = [st EXCEPT !.state = "connected"]
    ELSE chan' = Append(chan, plan)
         /\ stream' = [state |-> "connected", cursor |-> plan.cursor]

\* on_start, and handle_heartbeat without a connection: handle_connect by maybe_reconnect,
\* once the backoff is over
StreamConnects ==
    /\ up /\ stream.state # "connected"
    /\ Publish(stream)
    /\ UNCHANGED <<actors, handles, pending, rev, work, imageActor, up, host>>
    /\ Rest

\* handle_heartbeat: the heartbeat is sent, then the plan fetched.
StreamHeartbeat ==
    /\ up /\ stream.state = "connected"
    /\ Publish(stream)
    /\ UNCHANGED <<actors, handles, pending, rev, work, imageActor, up, host>>
    /\ Rest

\* handle_disconnected: a request has failed.
StreamDisconnects ==
    /\ up /\ host.faults < MaxFaults
    /\ stream' = [stream EXCEPT !.state = "backoff"]
    /\ host' = Spend(host)
    /\ UNCHANGED <<actors, handles, pending, rev, chan, work, imageActor, up>>
    /\ Rest

----------------------------------------------------------------------------
(* Mailboxes: send waits for room, try_send drops what does not fit.       *)

Alive(a) == a # None /\ actors[a].alive
HasRoom(a) == Len(actors[a].box) < BoxCap
Post(a, m) == [actors EXCEPT ![a].box = Append(@, m)]

ApplyMsg(i, d, r) == [kind |-> "apply", rev |-> rev, want |-> d, rel |-> r]
StopMsg == [kind |-> "stop", rev |-> 0, want |-> "stopped", rel |-> None]
TickMsg == [kind |-> "tick", rev |-> 0, want |-> "none", rel |-> None]

\* InstanceActor::new, spawned with its first message in the mailbox
NewActor(i, r) ==
    [inst |-> i, alive |-> TRUE, phase |-> "preparing", rev |-> 0, n |-> None, boot |-> None,
     spec |-> None, box |-> <<ApplyMsg(i, "running", r)>>]

----------------------------------------------------------------------------
(* NodeSupervisor.                                                         *)

\* handle_plan and the beginning of apply_instances
HandlePlan ==
    /\ up /\ ~work.on /\ chan # <<>> /\ rev < MaxRevs
    /\ LET p == Head(chan)
       IN  work' = [on |-> TRUE, want |-> p.want,
                    stops |-> {i \in Insts : handles[i] # None /\ p.want[i] = "absent"},
                    wants |-> {i \in Insts : p.want[i] # "absent"}]
    /\ rev' = rev + 1
    /\ chan' = Tail(chan)
    /\ UNCHANGED <<actors, handles, pending, stream, imageActor, up, host>>
    /\ Rest

\* stop_instance: the handle is gone whether or not the message arrives.
SupervisorStops(i) ==
    /\ handles[i] # None => ~Alive(handles[i]) \/ HasRoom(handles[i])
    /\ actors' = IF Alive(handles[i]) THEN Post(handles[i], StopMsg) ELSE actors
    /\ handles' = [handles EXCEPT ![i] = None]

StopAbsent(i) ==
    /\ up /\ work.on /\ i \in work.stops
    /\ SupervisorStops(i)
    /\ work' = [work EXCEPT !.stops = @ \ {i}]
    /\ UNCHANGED <<pending, rev, chan, stream, imageActor, up, host>>
    /\ Rest

\* request_image_pull: with an image actor the instance stays pending, whatever the actor
\* answers; without one it is spawned (spawn_instance).
RequestImagePull(i, r) ==
    IF imageActor
    THEN pending' = [pending EXCEPT ![i] = r] /\ UNCHANGED <<actors, handles>>
    ELSE /\ Len(actors) < MaxActors
         /\ actors' = Append(actors, NewActor(i, r))
         /\ handles' = [handles EXCEPT ![i] = Len(actors) + 1]
         /\ pending' = [pending EXCEPT ![i] = None]

\* ensure_instance for a running instance: an actor that does not take its message is
\* replaced.
EnsureRunning(i, r) ==
    IF handles[i] = None
    THEN IF pending[i] # None
         THEN pending' = [pending EXCEPT ![i] = r] /\ UNCHANGED <<actors, handles>>
         ELSE RequestImagePull(i, r)
    ELSE IF Alive(handles[i])
    THEN /\ HasRoom(handles[i])
         /\ actors' = Post(handles[i], ApplyMsg(i, "running", r))
         /\ UNCHANGED <<handles, pending>>
    ELSE IF imageActor
    THEN /\ pending' = [pending EXCEPT ![i] = r]
         /\ handles' = [handles EXCEPT ![i] = None]
         /\ UNCHANGED actors
    ELSE RequestImagePull(i, r)

\* ensure_instance for an instance to drain or to stop
EnsureEnding(i, w) ==
    /\ pending' = [pending EXCEPT ![i] = None]
    /\ CASE handles[i] = None -> UNCHANGED <<actors, handles>>
         [] handles[i] # None /\ w = "stopped" -> SupervisorStops(i)
         [] handles[i] # None /\ w = "draining" ->
              /\ Alive(handles[i]) => HasRoom(handles[i])
              /\ actors' = IF Alive(handles[i])
                           THEN Post(handles[i], ApplyMsg(i, "draining", actors[handles[i]].spec))
                           ELSE actors
              /\ UNCHANGED handles

EnsureAssigned(i) ==
    /\ up /\ work.on /\ work.stops = {} /\ i \in work.wants /\ \A k \in work.wants : i <= k
    /\ IF Runs(work.want[i]) THEN EnsureRunning(i, work.want[i]) ELSE EnsureEnding(i, work.want[i])
    /\ work' = [work EXCEPT !.wants = @ \ {i}]
    /\ UNCHANGED <<rev, chan, stream, imageActor, up, host>>
    /\ Rest

PlanApplied ==
    /\ up /\ work.on /\ work.stops = {} /\ work.wants = {}
    /\ work' = NoWork
    /\ UNCHANGED <<actors, handles, pending, rev, chan, stream, imageActor, up, host>>
    /\ Rest

\* The tick of run: one to every actor with room. check_and_restart finds no factory and
\* restarts nothing, check_pending_instances only looks.
SupervisorTick ==
    /\ up /\ ~work.on
    /\ actors' = [a \in 1 .. Len(actors) |->
                    IF \E i \in Insts : handles[i] = a /\ Alive(a) /\ HasRoom(a)
                                        /\ TickMsg \notin {actors[a].box[k] : k \in 1 .. Len(actors[a].box)}
                    THEN [actors[a] EXCEPT !.box = Append(@, TickMsg)] ELSE actors[a]]
    /\ actors' # actors
    /\ UNCHANGED <<handles, pending, rev, chan, stream, work, imageActor, up, host>>
    /\ Rest

\* shutdown: a stop to every actor; stop_all then ends those that have not stopped, through
\* on_stop as well.
Shutdown ==
    /\ up /\ ~work.on
    /\ up' = FALSE
    /\ actors' = [a \in 1 .. Len(actors) |->
                    IF actors[a].alive THEN [actors[a] EXCEPT !.box = <<StopMsg>>] ELSE actors[a]]
    /\ handles' = [i \in Insts |-> None]
    /\ UNCHANGED <<pending, rev, chan, stream, work, imageActor, host>>
    /\ Rest

----------------------------------------------------------------------------
(* InstanceActor.                                                          *)

\* transition_to_failed: the handle is dropped, the VM is not stopped.
TransitionToFailed(x) == [x EXCEPT !.phase = "failed", !.n = None, !.boot = None]

\* stop_instance
ActorStopped(x) == [x EXCEPT !.phase = "stopped", !.n = None, !.boot = None]
ActorStopsVm(h, x) == IF x.n = None THEN h ELSE StopVm(h, x.inst)

\* start_instance: what an actor and the host are after it
ActorStarts(h, x, r) ==
    {IF s.ok THEN [host |-> s.host, err |-> FALSE,
                   x |-> [x EXCEPT !.phase = "booting", !.n = s.host.table[x.inst].n,
                                   !.boot = s.host.table[x.inst].boot]]
     ELSE [host |-> s.host, x |-> TransitionToFailed(x), err |-> TRUE] : s \in StartVm(h, x.inst, r)}

\* A spec taken on; an error leaves the revision as it was.
Applied(o, m) == IF o.err THEN o ELSE [o EXCEPT !.x.rev = m.rev, !.x.spec = m.rel]
Quiet(h, x) == [host |-> h, x |-> x, err |-> FALSE]

\* (Ready, Running): needs_restart, and what follows
RestartIfChanged(h, x, m) ==
    IF x.spec # None /\ x.spec # m.rel
    THEN ActorStarts(ActorStopsVm(h, x), ActorStopped(x), m.rel) ELSE {Quiet(h, x)}

\* handle_apply_desired
ApplyDesired(h, x, m) ==
    IF m.rev <= x.rev THEN {Quiet(h, x)}
    ELSE {Applied(o, m) : o \in
            CASE m.want = "running" /\ x.phase \in {"preparing", "failed"} -> ActorStarts(h, x, m.rel)
              [] m.want = "running" /\ x.phase = "ready" -> RestartIfChanged(h, x, m)
              [] m.want = "draining" /\ x.phase = "ready" -> {Quiet(h, [x EXCEPT !.phase = "draining"])}
              [] OTHER -> {Quiet(h, x)}}

\* handle_tick by phase: a health check, the end of the drain, the boot's status or its
\* timeout
TickReady(h, x) ==
    IF x.n = None THEN {Quiet(h, TransitionToFailed(x))}
    ELSE {Quiet(IF ok \/ x.n \notin Live(h) THEN h ELSE Spend(h), IF ok THEN x ELSE TransitionToFailed(x)) :
            ok \in CheckVmHealth(h, x.inst)}
         \cup (IF CheckVmHealth(h, x.inst) = {} THEN {Quiet(h, x)} ELSE {})

TickDraining(h, x) == {Quiet(h, x), Quiet(ActorStopsVm(h, x), ActorStopped(x))}

TickBooting(h, x) ==
    LET said_ == IF x.n = None THEN {} ELSE GetBootStatus(x.inst, x.boot)
    IN  {Quiet(h, IF "ready" \in said_ THEN [x EXCEPT !.phase = "ready"]
                  ELSE IF said_ \cap {"failed", "exited"} # {} THEN TransitionToFailed(x) ELSE x)}
        \cup (IF h.faults < MaxFaults THEN {Quiet(Spend(h), TransitionToFailed(x))} ELSE {})

HandleTick(h, x) ==
    CASE x.phase = "ready" -> TickReady(h, x)
      [] x.phase = "draining" -> TickDraining(h, x)
      [] x.phase = "booting" -> TickBooting(h, x)
      [] OTHER -> {Quiet(h, x)}

\* handle, inside run_actor_loop: a stop ends the loop, and on_stop finds nothing to stop.
HandleMessage(a) ==
    /\ actors[a].alive /\ actors[a].box # <<>>
    /\ LET m == Head(actors[a].box)
           x == [actors[a] EXCEPT !.box = Tail(@)]
       IN  \E o \in CASE m.kind = "apply" -> ApplyDesired(host, x, m)
                      [] m.kind = "tick" -> HandleTick(host, x)
                      [] m.kind = "stop" -> {Quiet(ActorStopsVm(host, x),
                                               [ActorStopped(x) EXCEPT !.alive = FALSE])} :
             /\ host' = o.host
             /\ actors' = [actors EXCEPT ![a] = o.x]
    /\ UNCHANGED <<handles, pending, rev, chan, stream, work, imageActor, up>>
    /\ Rest

=============================================================================
