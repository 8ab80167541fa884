--------------------------- MODULE HostDeployment ---------------------------
(***************************************************************************)
(* What is in the Deployment of a host: how createOrUpdateDeployment puts  *)
(* the configured template and the host's spec together with what is there *)
(* already, time and again, while users edit the spec, others write the    *)
(* Deployment, and the manager starts with another template.               *)
(*                                                                         *)
(* An argument is the flags of interest it contains, each with whose value *)
(* it has: the host's own name or something else.                          *)
(***************************************************************************)
EXTENDS Naturals, Sequences, SequencesExt

CONSTANTS
  Names,      \* of environment variables
  Values,     \* of environment variables
  Templates,  \* Deployments the configuration may give
  Quantities, \* of resources and replicas; 0 is none
  Specs,      \* of the host
  OtherEnvs,  \* variables somebody else gives the Deployment
  MaxChanges  \* bound: what users, others and configurations change

Flags    == {"focal-host", "service-name"}
Variable == [name : Names, value : Values]
Argument == UNION {[F -> {"own", "other"}] : F \in SUBSET Flags}
HostSpec == [env : Seq(Variable), resources : Quantities, replicas : Quantities]

\* identity: the name of the container, the ServiceAccount and the ConfigMap of
\* the volume "config".
Deployment ==
  [present : BOOLEAN, args : Seq(Argument), command : Seq(Argument), env : Seq(Variable),
   resources : Quantities, replicas : Quantities, identity : {"own", "other"}]

ASSUME HostDeploymentAssumption ==
  /\ 0 \in Quantities
  /\ \A t \in Templates : t \in Deployment
  /\ \A s \in Specs : s \in HostSpec
  /\ \A e \in OtherEnvs : e \in Seq(Variable)
  /\ MaxChanges \in Nat

NoDeployment ==
  [present |-> FALSE, args |-> <<>>, command |-> <<>>, env |-> <<>>,
   resources |-> 0, replicas |-> 0, identity |-> "other"]

VARIABLES
  spec,      \* of the host
  template,  \* the memoized template
  deploy,    \* the Deployment in the API server
  cached,    \* the cached copy of it
  synced,    \* the cached copy has the current resourceVersion
  queued,    \* the host's key is in the work queue
  changes    \* changes so far

vars == <<spec, template, deploy, cached, synced, queued, changes>>

Init ==
  /\ spec \in Specs /\ template \in Templates
  /\ deploy = NoDeployment /\ cached = NoDeployment /\ synced = TRUE
  /\ queued = TRUE /\ changes = 0

-----------------------------------------------------------------------------
(* MergeEnvVars                                                            *)

NamesOf(env) == {env[i].name : i \in DOMAIN env}

\* Mutant: the index map keeps the first of several variables of a name.
FirstIndex(env, n) == Min({i \in DOMAIN env : env[i].name = n})

\* The index map: of several variables of a name the last one counts.
IndexOf(env, n) == Max({i \in DOMAIN env : env[i].name = n})

Override(env, v) ==
  IF v.name \in NamesOf(env) THEN [env EXCEPT ![IndexOf(env, v.name)] = v] ELSE Append(env, v)

MergeEnvVars(existing, overrides) ==
  LET merged[i \in 0..Len(overrides)] ==
        IF i = 0 THEN existing ELSE Override(merged[i - 1], overrides[i])
  IN merged[Len(overrides)]

-----------------------------------------------------------------------------
(* The mutate function of createOrUpdateDeployment                         *)

Own(flag) == [f \in {flag} |-> "own"]

\* Mutant: the flags are mixed up.
RewrittenSwapped(arg) ==
  CASE "service-name" \in DOMAIN arg -> Own("focal-host")
    [] DOMAIN arg = {"focal-host"}   -> Own("service-name")
    [] DOMAIN arg = {}               -> arg

\* An argument with a flag becomes that flag, and the later of the two tests wins.
Rewritten(arg) ==
  CASE "service-name" \in DOMAIN arg -> Own("service-name")
    [] DOMAIN arg = {"focal-host"}   -> Own("focal-host")
    [] DOMAIN arg = {}               -> arg

Found(flag, d) == \E i \in DOMAIN (d.args \o d.command) : flag \in DOMAIN (d.args \o d.command)[i]

RewrittenAll(args) == [i \in DOMAIN args |-> Rewritten(args[i])]

Missing(flag, d) == IF Found(flag, d) THEN <<>> ELSE <<Own(flag)>>

\* Mutant: what is in the spec is only used for a new Deployment.
MutatedOnce(d) ==
  LET base == IF d.present THEN d ELSE [template EXCEPT !.present = TRUE]
  IN [base EXCEPT
        !.args     = RewrittenAll(@) \o Missing("focal-host", base) \o Missing("service-name", base),
        !.command  = RewrittenAll(@),
        !.identity = "own",
        !.env      = MergeEnvVars(@, IF d.present THEN <<>> ELSE spec.env)]

Mutated(d) ==
  LET base == IF d.present THEN d ELSE [template EXCEPT !.present = TRUE]
  IN [base EXCEPT
        !.args      = RewrittenAll(@) \o Missing("focal-host", base) \o Missing("service-name", base),
        !.command   = RewrittenAll(@),
        !.identity  = "own",
        !.env       = MergeEnvVars(@, spec.env),
        !.resources = IF spec.resources = 0 THEN @ ELSE spec.resources,
        !.replicas  = IF spec.replicas = 0 THEN @ ELSE spec.replicas]

-----------------------------------------------------------------------------
(* Steps                                                                   *)

\* CreateOrUpdate: nothing is written when nothing changes, and an outdated copy
\* is refused; a write is an event of an owned object.
Reconcile ==
  /\ queued
  /\ \/ /\ Mutated(cached) = cached
        /\ queued' = FALSE /\ UNCHANGED <<deploy, synced>>
     \/ /\ Mutated(cached) # cached /\ synced
        /\ deploy' = Mutated(cached) /\ synced' = FALSE /\ queued' = FALSE
     \/ /\ Mutated(cached) # cached /\ ~synced
        /\ UNCHANGED <<deploy, synced, queued>>
  /\ UNCHANGED <<spec, template, cached, changes>>

\* The informer of Deployments delivers; the event enqueues the owner.
Deliver ==
  /\ ~synced
  /\ cached' = deploy /\ synced' = TRUE /\ queued' = TRUE
  /\ UNCHANGED <<spec, template, deploy, changes>>

Change == changes < MaxChanges /\ changes' = changes + 1

EditSpec ==
  /\ Change
  /\ spec' \in Specs \ {spec} /\ queued' = TRUE
  /\ UNCHANGED <<template, deploy, cached, synced>>

\* Somebody else scales the Deployment, changes its container, or deletes it.
Meddle ==
  /\ Change /\ deploy.present
  /\ \/ \E q \in Quantities \ {0} : deploy' = [deploy EXCEPT !.replicas = q]
     \/ \E e \in OtherEnvs : deploy' = [deploy EXCEPT !.env = e, !.args = <<>>, !.identity = "other"]
     \/ deploy' = NoDeployment
  /\ synced' = FALSE
  /\ UNCHANGED <<spec, template, cached, queued>>

\* The manager starts with another configuration.
Restart ==
  /\ Change
  /\ template' \in Templates
  /\ cached' = deploy /\ synced' = TRUE /\ queued' = TRUE
  /\ UNCHANGED <<spec, deploy>>

Next == Reconcile \/ Deliver \/ EditSpec \/ Meddle \/ Restart

Spec     == Init /\ [][Next]_vars
FairSpec == Spec /\ WF_vars(Reconcile) /\ WF_vars(Deliver)

-----------------------------------------------------------------------------
(* Properties                                                              *)

\* What a container sees of a list of variables: the last of a name.
Seen(env) ==
  [n \in NamesOf(env) |-> env[Max({i \in DOMAIN env : env[i].name = n})].value]

\* When there is nothing left to do the Deployment has what the spec asks for, and
\* both flags with this host's name wherever they are, although one pass may turn
\* an argument with both into one of them (createOrUpdateDeployment).
RestMatchesSpec ==
  ~queued /\ synced =>
    /\ deploy.present /\ deploy.identity = "own"
    /\ \A n \in NamesOf(spec.env) : n \in NamesOf(deploy.env) /\ Seen(deploy.env)[n] = Seen(spec.env)[n]
    /\ spec.resources # 0 => deploy.resources = spec.resources
    /\ spec.replicas # 0 => deploy.replicas = spec.replicas
    /\ LET all == deploy.args \o deploy.command
       IN \A flag \in Flags :
            /\ \E i \in DOMAIN all : flag \in DOMAIN all[i]
            /\ \A i \in DOMAIN all : flag \in DOMAIN all[i] => all[i][flag] = "own"

\* A reconcile that writes overrides what the container sees of its environment with what the
\* spec gives, keeps the rest, what an earlier spec gave included, and keeps the
\* order, since a variable may refer to those before it (MergeEnvVars).
MergesEnvironment ==
  [][Reconcile /\ deploy' # deploy /\ deploy.present =>
       /\ Seen(deploy'.env) =
            [n \in NamesOf(spec.env) \cup NamesOf(deploy.env) |->
               IF n \in NamesOf(spec.env) THEN Seen(spec.env)[n] ELSE Seen(deploy.env)[n]]
       /\ \A i \in DOMAIN deploy.env : deploy'.env[i].name = deploy.env[i].name]_vars

\* Whatever the Deployment has become, two passes of the mutate function make of it
\* what a third one leaves alone: the first may lose one of two flags in an argument,
\* the second puts it back (createOrUpdateDeployment).
TwoPassesSettle ==
  LET twice == Mutated(Mutated(deploy))
  IN Mutated(twice) = twice

\* Reconciling comes to an end: the mutate function does not change what it made
\* for ever, which its own events would have it do.
Settles == <>[](~queued /\ synced)
=============================================================================
