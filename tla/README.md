# A TLA+ model of kdex-nexus

kdex-nexus is a Kubernetes operator. A `KDexHost` names a theme, a script
library, utility pages and translations; the operator copies what it names into
internal resources, and runs a *host manager* (a Deployment with its Service,
ConfigMap, ServiceAccount and ClusterRoleBinding) that serves them. Everything a
host can refer to is an object with a readiness of its own, kept by nine small
reconcilers. Webhooks default and validate all of these objects.

This directory holds specifications of that behaviour, the TLC configurations
that check them, and theorems that TLAPS proves. Each module names the Go code it
translates; `PROJECT.json` gives the lines.

## 1. Inventory

| Part (source) | State | Operations | Met through |
| --- | --- | --- | --- |
| Host reconciler (`internal/controller/kdexhost_controller.go`, `kdexhost_controller_util.go`) | the host's finalizer and status, eleven or more child objects | add finalizer; resolve references; create or update the children; wait; tear down; update status | informer caches, API server, work queue |
| Reference resolver (`resolver_common.go`) | none; marks the referrer's conditions | resolve a reference, a secret, contents, navigations | called by every reconciler |
| Watch handler (`utils.go`) | none | map an event of an object to those that refer to it | called by informers |
| Readiness reconcilers (app, script library, theme, translation, page header, footer, navigation, archetype, utility page) | status of each object: Ready, observed generation, generations of what was resolved | one Reconcile each | the resolver, the watch handler, each other's status |
| Page binding, function controllers | none | register webhooks | |
| Webhooks: defaulters, validators (`internal/webhook`) | none | default or admit one object | API server |
| Validation (`internal/validation`, `internal/page`) | none | render a template, look up a package | webhooks, reconcilers |
| Manager (`cmd/main.go`, `config/manager`) | leader lease | start, stop | all |
| Outside: API server, garbage collector, Deployment controller, host manager, users | objects, finalizers, owner references | | watches |

What is hard here:

* **Everything is read from a cache.** A Get or List answers what an informer has
  seen; an update of an outdated copy is refused, a create of an object that
  exists is too, but a *delete* is by name and a *not found* is believed.
* **One Reconcile is some twenty calls**, each of which can fail or be the last
  before the manager stops. The host may be edited, deleted, or made again under
  its name in between.
* **Teardown is a wait**, on resources whose finalizers the host manager removes;
  the host manager in turn needs the objects the teardown is there to remove.
* **The status is written in a deferred call**, whose conflict replaces the
  result of the reconcile. On the error paths of utility pages, theme and script
  library `err.Error()` is called on a nil error, so a reference that is missing
  or not ready makes the reconcile panic; controller-runtime recovers it, after
  the deferred call has run.
* **Readiness spreads by events.** A change reaches the referrers that the watch
  handler finds; others depend on a delayed retry, or never learn of it.
* **The reconciler meets its own writes again.** A write of a Deployment or of a
  copy is an event that wakes the reconcile that made it; the mutate functions
  merge into what is there, and have to come to an end.
* **Names are not unique.** A copy is called after the host and what it copies,
  with a dash in between, so that two hosts, or a translation of the cluster and
  one of a namespace, may mean the same one.
* **The webhooks may be skipped** (`failurePolicy=Ignore`), and are served by the
  very manager whose writes they are to admit.

What makes each part correct:

* host reconciler: creation and teardown keep their orders whatever is lost;
  nothing is created for a host that is not there; Ready means that everything is
  in place for the generation that is reported; a deleted host goes, and what was
  made for it with it; a host whose references are ready becomes Ready;
* resolver, watch handler and readiness reconcilers: when the queues are empty
  nothing is Ready that should not be; what is not Ready is tried again; a status
  is about the spec it claims to be about; readiness arrives;
* contents of the Deployment: it ends up with what the spec asks for, whatever was
  there, and the merging ends;
* shared copies: none passes from host to host, and none is served that is another
  host's;
* webhooks: what they have seen once they leave alone, and a host that is deleted
  goes even if they never saw it;
* translation validator: what an admitted translation has in common with its
  first language.

The hazards, each at its line and with the properties that are about it, are
listed in `PROJECT.json`.

## 2. Modules

| Module | Models |
| --- | --- |
| `Cluster` | what the host reconciler runs against, for one host name: API server, caches, queue, users, garbage collector, Deployment controller, host manager. Not code of the repository (but for what is watched, owned and bundled), and modelled from how the reconciler relies on it |
| `KDexHost` | `KDexHostReconciler.Reconcile`, one action per call that reads or writes shared state; the composition with `Cluster` |
| `HostLife` | the abstract specification of a host: what exists when, and which part needs which. `KDexHost` implements it |
| `MCKDexHost` | what TLC runs |
| `KDexHostProofs`, `KDexHostFinalizerProofs`, `KDexHostLifeProofs`, `KDexHostReadyProofs` | theorems about `KDexHost`: types, the safety properties, and that it implements `HostLife` |
| `References`, `MCReferences` | the readiness reconcilers with the resolver and the watch handler, and instances of them |
| `ReferencesProofs` | theorems about `References` |
| `HostDeployment`, `MCHostDeployment` | the contents of the Deployment: the mutate function of `createOrUpdateDeployment`, `MergeEnvVars`, the memoized template |
| `Copies`, `MCCopies` | several hosts of a namespace and the copies of translations they mean by the same name |
| `Admission` | the defaulting and validating webhooks of ten kinds, as they are reached or not |
| `HostDeploymentProofs`, `CopiesProofs`, `AdmissionProofs` | theorems about these three |
| `TranslationValidator` | the admission of translations |

### KDexHost

`pc` is the next call of the running reconcile: `idle` and `status` are common
to all branches, `utilityPages` ... `internalHost` is creation, `tearInternalHost`
... `removeFinalizer` teardown. `work` is the reconcile's copy of the host
(`var host` in the code), `todo` what is left of a loop, `made` the internal
references passed to `createOrUpdateInternalHostResource`, `seen` the condition
of the Deployment that `createOrUpdateDeployment` returned, and `again` whether
the result is an error or a requeue. `Return` is a `return`: it fixes the status
and leaves the deferred `UpdateStatus` to do.

In `Cluster`, `host` and `objs` are in the API server, `hostCache` and `cache` in
the informers. An object is *synced* when its cached copy has the current
resource version, and `fresh` says the same of `work`; the API server refuses a
write exactly when this is false. The cache of the host always lags; those of the
children in `Lagging` may. For the others a write and its event are one step,
which is an abstraction, and the runs differ in what lags. An object's identity
is the host's `uid` in its owner reference; contents are left out except for what
the internal host is told, the generation and the references.

`Ensure(k, then)` is `CreateOrUpdate` with its mutate function `Desired(k)`:
every child but the ClusterRoleBinding gets the host as its controller.
`SetControllerReference` replaces a reference to an owner of the same name, so
an object of an earlier incarnation is adopted.

`AwaitGone` is one of the four blocks of the teardown, `DeleteNext` the calls of
its loop, `Release` one half of `cleanupRbacFinalizers`. `Fail` is an error from
any call, a page of the wrong type included; `Restart` stops the manager anywhere
and refills the caches.

### HostLife

The life of a host is *absent*, *requested*, *accepted* (it has the finalizer),
*leaving* (it is being deleted); parts are made only for a host that is accepted or
leaving, may be lost at any time, and a part that another one needs is neither lost
before it nor made after it. The host departs when what it waits for is gone. Making
a part for a host that is leaving is allowed: the reconcile that does it works on an
older copy.

The refinement mapping (`Life` and `Needs` in `KDexHost`) takes the host from its
uid, deletion mark and finalizer, and the parts from the children that exist. A
Deployment needs both RBAC objects; an internal host needs the copies it names, but
for those somebody else may delete and those whose cache lags, and none at all if
its own cache lags: a teardown that overlooks an object cannot keep its order. For
the same reason the host waits only for what does not lag. Everything else, the
caches, the queue, the program counter, conditions and status, is hidden: a step
that only changes these is a stutter.

### HostDeployment, Copies, Admission

These three take up what `KDexHost` leaves out, each with the calls that matter for
it in one action.

`HostDeployment!Reconcile` is a pass over the cached Deployment: `Mutated` is the
mutate function, and nothing is written if it changes nothing. Arguments are
abstracted to the flags they contain and whose name follows; an argument with both
flags is turned into the one, and a later pass, which the write of the first one
causes, adds the other. `MergeEnvVars` is the loop, `Override` one round of it, and
`IndexOf` what the index map has for a name. The memoized template changes only with a `Restart`.

In `Copies` a name is the sequence of its parts between dashes, so that `NameOf` is
not injective. `CopyNext` is a round of the loop of `resolveTranslations` with its
`CreateOrUpdate`, decided on the cached copy; `AlreadyOwned` is what
`SetControllerReference` refuses. `events` holds the owners in versions of a copy
that the cache has yet to get: the informer enqueues all of them.

`Admission` has one object of any kind and scope. `Admit` lets each webhook be
reached or not (neither when the manager is down), a bound limiting the calls lost
while it is up. What the object refers to is a function from the references of its
kind to the form of the reference: none, its kind left open, of a namespace, of the
cluster. References that only have a name (of a host, of a parent page, of a secret) are
left out. The host reconciler's finalizer writes are writes of the whole object, too.

### References

An object is a namespace and a kind (one of each kind in a namespace, the empty
namespace for the cluster scoped), with a spec that is a set of references.
`Reads` and `Watches` are the tables of what each controller resolves, in order,
and watches; `Resolve` is the resolver and what its callers do with each answer;
`Finds` is the comparison that the watch handler makes, and `Key` the one that the
resolver makes: they differ for references into another namespace, and for
secrets. `later` stands for everything that comes back by itself: the requeue
delay, and the backoff after errors and conflicts. Informers in `Lagging` deliver
later; the handlers of controllers in `Slow` run later than their caches change,
and look referrers up in the cache as it then is. `GetFails` is a Get that fails
otherwise than by not finding, which both resolvers ignore: they go on with an empty
object, which is not ready, or which is an empty secret. The slots of a spec, under
which the status records the generations of what was resolved, are not told apart: a
spec refers to one object of each kind (`OneOfAKind`).

### TranslationValidator

A spec is a sequence of languages, and a language the set of its keys.
`SameCount` translates the count that the code compares.

## 3. Runs

| Run | Question | Bounds |
| --- | --- | --- |
| `KDexHostSafety` | Do creation and teardown keep their orders, and does Ready mean what it says, with failures and restarts between any two calls? | two incarnations, generation 2, two failures, one page with a finalizer |
| `KDexHostReferences` | Is the internal host told of copies that exist, and of all that are named? | a bundled page, a chosen translation and a theme that panics the reconcile, each missing, not ready or ready at any time |
| `KDexHostLag` | Do stale caches, others' deletions and restarts break the orders, or let a host be Ready over objects of its predecessor? | two incarnations, the internal host's cache lags, one failure or deletion |
| `KDexHostTeardown` | Does a deleted host go, and what it owned, when a page vanishes while the pages are being deleted, and when the host met objects of its predecessor? | two incarnations, two pages with finalizers on their copies, one failure, restart or deletion by others |
| `KDexHostLiveness` | Does a host become Ready? | one incarnation, a chosen page that comes and goes with a finalizer on its copy, conditions of the Deployment and the internal host, one failure |
| `KDexHostStaleDeployment` | violation: the Deployment is gone when its RBAC objects are let go of | its cache lags |
| `HostDeploymentSettles` | Does the Deployment end up as the spec asks, and does the merging end, after how many passes? | three templates, twelve specs, two variables and values, two changes by users, others or a new configuration |
| `CopiesShared` | What if two hosts mean the same copy? | hosts `a` and `a-b`, translations `b-default`, `default` and the cluster's `default`; two edits, deletions or removals |
| `ReferencesLag` | Is readiness ever stale at rest, or an unready object forgotten, along page, archetype and lent navigation, and do handler and resolver agree on scopes? | a page in a namespace, archetype and navigation of the cluster, a reference to the wrong scope; one edit, deletion or creation, a lagging informer and slow handlers |
| `ReferencesRetry` | Is a status about the spec it claims to be about, also when the object is made again? Does readiness arrive where no event announces it? | a secret, a library, a footer in another namespace; two edits, one failed read or validation, or a restart |
| `AdmissionHolds` | What becomes of objects that were stored while the webhooks were away? | ten kinds, both scopes, two writes of users, one lost call besides those of a manager that is down |
| `TranslationValidatorSameKeys` | violation: all languages have the same keys | three languages, three keys |

Two incarnations are needed for a host to meet its predecessor's objects and two
generations for a status to be out of date; a third adds another round of the
same. `KDexHostSafety` has a second failure inside the retry of the first; one failure at an
arbitrary call covers each error path. One object of each kind is enough for the loops of the code,
which treat elements alike, except in `ResolveTranslation`, where `KDexHostReferences`
has two, and in `DeleteNext`, where a page that is gone keeps the others from being
deleted, and `KDexHostTeardown` has two. Users' actions are bounded, so that the systems come to rest:
that is why deadlock is not checked, and the liveness properties say what is
reached then.

Limits of what holds, found on the way:

* `NothingLeftByTeardown` is stated for children whose caches keep up. With a
  lagging cache the teardown overlooks an object made just before; the garbage
  collector gets it later (which `KDexHostTeardown` does not check: no cache of a
  child lags in it).
* `ReadyMeansInPlace` excepts children that somebody else deletes, and the runs
  have no finalizer on an internal host whose cache lags. With both, an internal
  host of the previous incarnation that is being deleted is adopted, the host
  becomes Ready, and the internal host then vanishes, until the event of its
  deletion has it created again.
* A host that is being deleted keeps reporting Ready, with the generation of its
  deletion as observed: the teardown does not touch the conditions. The properties
  are about hosts that are not being deleted.
* `ServesWhatItNames` does not cover the defaults: those that are missing are left
  out of a Ready host, and one that is not ready is copied.
* `TeardownCompletes` needs that nobody deletes the Deployment or the RBAC objects
  of a host that is being torn down (`KDexHostTeardown` has others delete a page only):
  without the host manager nothing removes the finalizers of the internal resources.
* `ImplementsHostLife` holds for what the parts need that does not lag and is not
  somebody else's to delete; the two runs that check it differ in both.
* The environment, resources and replicas of an earlier spec, or of somebody else,
  stay in the Deployment when the spec has none. `RestMatchesSpec` speaks of what the
  spec asks for, `MergesEnvironment` says that the rest is kept.
* When a spec names a translation and a cluster translation of one name (for example
  `default` besides the default one), the copies overwrite each other for ever: each
  write is an event that has the host reconciled again. `Settles` of `Copies` excepts
  this (`NamesTwice`), as well as a host that waits for a copy of one that stays
  (`Blocked`), which retries for ever. `ServedAtRest` holds in both cases: a host that is
  at rest is served with copies of its own, each made of the translation it asked for.
* `DeletedGoes` excepts hosts that are not sound, and those that name a url that their
  backend does not serve: stored while the webhooks were away, they cannot be updated
  once these are back, and keep their finalizer until a user corrects the spec.
* The defaulter of hosts fills in the kinds of the theme, the library and the utility
  pages, but not those of the translations, nor that of the FaaS adaptor. A translation
  without a kind passes both webhooks, and the resolver refuses it (*unknown kind*): the
  reconcile fails and is tried again until a user gives the kind. No comment or test says
  that it should be filled in, so that this is no finding. `ReferencesResolve` excepts
  these two references (`Untouched`): everything else that the resolver refuses is what
  the user spelled out. The adaptor is watched, but nothing here resolves it; without a
  kind no event is mapped to its host.
* A secret whose Get fails counts as found, so that `ReadyAtRest` says nothing of
  secrets after a failed read.
* `ReadyAtRest` excepts objects that refer to another namespace: the handler does
  not follow these, and a Ready referrer stays Ready when its referent is deleted.
  `EventuallyReady` holds for them because an unready referrer is tried again. A page
  whose archetype refers to another namespace is not told of the archetype's navigation
  for the same reason.
* Of a navigation that a page borrows from its archetype, `ReadyAtRest` says that it is
  Ready, but not that the page has recorded its current generation. The page learns of it
  only through the archetype's status. When the navigation is deleted and made again
  within a second, and that status ends up as it was, nothing tells the page.

### Findings

* *Deployment is gone* (`kdexhost_controller.go:166`): it may just not be in the
  cache yet. A host that is deleted right after its Deployment was created loses
  the finalizers of its RBAC objects while the Deployment exists.
* *ensure that every language has the same keys as the first language*
  (`kdextranslation_validator.go:49`): the keys that are counted are those of the
  first language, so a language with more keys is admitted.

### Fairness

`KDexHost!Fairness`: the worker makes its next step (controller-runtime always
runs a reconcile to its end, and takes the key that is queued); informers deliver;
the host manager lets go of resources that are being deleted, as long as it runs
under its RBAC objects; the garbage collector collects. Users, other controllers'
reports, failures and restarts are not fair. `References!Fairness` asks the same
of workers, informers, handlers and timers. `Begin` is strongly fair there: the
queues are first in, first out, so a waiting object gets its turn although the
worker is busy with others in between. `HostDeployment` needs no more than that the
worker and the informer go on. In `Copies` the worker takes each waiting host in turn
(`SF` of `Begin` and `TearDown`, the queue being first in, first out, and a worker that
is busy with another host in between). In `Admission` the manager is started again, and
`SF` of the two finalizer writes says that it stays up for long enough in the end: the
reconciler retries with a growing delay for ever, the webhooks being up whenever it is.

## 4. Theorems

The proofs hold for any pages, translations, lagging caches, removable and
finalized objects and any bounds. `KDexHostProofs` has

* `TypeCorrect`: `Spec => []TypeOK`. `TypeOK` is inductive. `todo` is typed by
  `pc`, because its elements are references in creation and children in the
  teardown. There is a lemma for each way a step ends (`GotoType`, `ReturnType`,
  `EnsureType` ...) and one for each group of actions.
* `RbacCorrect`: `Spec => []RbacOutlivesDeployment`, if the caches of the
  Deployment, the ServiceAccount and the ClusterRoleBinding do not lag. The
  finding above is why that is assumed.

`RbacOutlivesDeployment` is not inductive: nothing in it says why a Deployment may
be created, or a finalizer removed. `RbacInv` adds that the three caches agree
with the API server, that the ServiceAccount (and the ClusterRoleBinding) are
kept while the reconcile is between their creation and the Deployment's, and that
there is no Deployment while their finalizers are being removed. Almost every
write is *harmless*: it neither unmakes an RBAC object that is kept nor makes a
Deployment (`Preserved`). The exceptions have lemmas of their own: the creation of
the RBAC objects, of the Deployment, and the two releases. Deletions by others are
harmless because a kept object has a finalizer.

`KDexHostFinalizerProofs` has `FinalizerCorrect`: `Spec =>
CreationOnlyUnderFinalizer`, whatever caches lag. The hazard is a stale copy of the
host: deleted and made again, its predecessor's copy has a finalizer that its
successor has not. `HostInv` says why it is harmless. A copy with a uid, a finalizer
and no deletion is of the host that exists, and that host still has its finalizer,
because only a teardown that works on a current copy removes one, and a teardown
follows a copy that was deleted. `ChildInv` says that a synced copy of a child is
the current one and that a ClusterRoleBinding never has an owner.

The same module has `TeardownCorrect`: `Spec => NothingLeftByTeardown`.
`TearInv` says that the caches that do not lag are current, and that what the
teardown has waited for (`Cleared(pc)`) is still gone: each check adds a set to it,
and outside of creation nothing is made (`GoneStays`). `UidInv` excludes that the
finalizer goes in any other step than `RemoveFinalizer`.

`KDexHostLifeProofs` has `ReferencesCorrect`: `Spec => []NoDanglingRefs`, if no cache of
an internal resource lags and nobody else deletes pages or translations; and
`LifeCorrect`: `Spec => ImplementsHostLife`, if what is `Unlagged` (the children whose
order the mapping shows) does not lag. Both rest on `LifeInv`, about the children that
are `Secure`, that is, current in their cache and nobody else's to delete:

* `PastInv`: the loops of the reconcile are behind what is in their past; a reference
  that is in `made` was made, and a copy is not gone again;
* `CopyInv`: a copy that is not there is not in its cache either;
* `NameInv`: what the internal host names exists, and what the running reconcile is
  about to name does.

A write of a child is `Lawful` if it neither removes one that is needed nor makes one
too early; `Quiet` says that a step outside of creation makes nothing, and
`CreationStep` what a step of creation may do. The argument of `LifeCorrect` is then by
actions: each is a step of the abstract host (`Accept`, `Depart`, `Make`, `Lose` ...), or
`Alive` and `Met` (the parts, and what they need) do not change.

`KDexHostReadyProofs` has `ReadyCorrect`: `Spec => []ReadyMeansInPlace`, and
`ServesCorrect`: `Spec => []ServesWhatItNames`, if the cache of the internal host keeps up
and nobody else deletes the internal host. All other caches may lag. A reconcile that
finds a child in its cache does not write it, so that Ready rests on evidence that may be
old; the invariants say why old evidence is good enough:

* `OwnerInv`: what the host owns is deleted only in a teardown, which waits for the
  deletion of the host; what a cache shows as owned by a host that is not being deleted
  still is (`Shown`, `Own`). `BoundInv`, that no object names an incarnation that has yet
  to come, keeps a child of an earlier one from counting;
* `VersionInv`: copies of the host do not go back behind the generation its status reports,
  and one of the same generation has the same references;
* `PlaceInv`: creation has made what is `Behind` its program counter, so that everything
  is in place when the condition is set, and the deferred update is refused if the copy
  at hand is not current;
* `ServeInv`: the references of the host are in `made` or still to come (`Coming`), and
  the call for the internal host tells it all of them.

Without the assumption a Ready host may have no internal host: somebody deleted it, or the
lagging cache hid that it was being deleted (section 3). A lagging cache alone does no harm
as long as nothing holds the internal host with a finalizer; that is not proved, but
`KDexHostLag` checks it.

`ReferencesProofs` has four theorems, for any objects, references, tables of lagging
informers and slow handlers:

* `ReferencesTypeCorrect`: `Spec => []TypeOK`;
* `RetriesCorrect`: `Spec => []UnreadyRetries`. Its invariant `SyncedInv` adds that an
  informer with nothing to deliver has the current object; every action then keeps
  `Awake`: an object that is written is announced to its own controller, and a reconcile
  that ends without Ready leaves a retry behind;
* `ResolvedCorrect`: `Spec => []ReadyMeansResolved`. The deferred update is refused
  unless the copy the worker has is current (`CopyOf`); while it is, what was resolved is
  what the current generation refers to (`Sound`). `ResolvedInv` says so of the running
  reconcile of each controller and of the cached copies it may start from;
* `RestCorrect`: `Spec => []ReadyAtRest`. The property speaks of states where nothing is
  under way; `RestInv` says for every state who will find out what is wrong. An object that
  is `Roused` has an event of its own on its way and will be reconciled. Otherwise its
  worker's copy is current, and each reference that has been resolved, by the running
  reconcile or the one that left the status, is `Tracked`: what was recorded of it is still
  so (`Meets`), or an event of it is on its way to the controller (`Expected`). An
  event that is delivered rouses the referrer because the handler finds whom the resolver
  would resolve (`KeyFound`, `InformedTells`), which is where references that are not followed
  drop out, and because every kind that is read is watched (`ReadsWatched`). `SingleInv`
  carries `OneOfAKind` to every copy of a spec.

`CopiesProofs` has `OwnerCorrect`: `Spec => NeverTakenOver`, and `ServedCorrect`:
`Spec => []ServedAtRest`, for any hosts and any names, however many of these mean the same
copy. The cached copy on which a reconcile decides may be old. `SyncedInv` says that who
owned it then and who owns it now are both among the events to come. So a copy is *kept*
for a host (`Kept`) if it is as that host made it, or an event will wake the host.
`WorkKept` has it of what the running reconcile has made so far, which is a beginning of
what it has to make (`Progress`), and `HostKept` of every host that does not wait for its
turn. With no events left, only the first case remains.

`HostDeploymentProofs` is about lists of any length. The provers cannot use an induction
theorem of the library; `LeastNumber` (from the well-foundedness of the naturals) and `UpTo`
take its place, with a set instead of a predicate. `LoopMerges` shows that the recursive
function in `MergeEnvVars` exists and has its equations, `Combined` what the list is after
`i` rounds, and `MergeSeen` and `MergeSettles` what comes out of the loop and that a second
run changes nothing. The theorems are

* `RestCorrect`: `Spec => []RestMatchesSpec`. `DeploymentInv` says that a host that is not
  queued, with a current cache, has a Deployment that `Mutated` leaves alone; and what it
  leaves alone is as the spec asks (`UnchangedMatches`);
* `SettlesCorrect`: `Spec => []TwoPassesSettle`. The first pass makes every argument one
  that a pass leaves alone (`FirstPass`, `Plain`), the second only adds flags that are
  missing (`LaterPass`), and then none is. This is the part of `Settles` that is no
  liveness: a reconciler whose writes wake it writes twice at most;
* `EnvironmentCorrect`: `Spec => MergesEnvironment`.

`AdmissionProofs` has `ReadmissionCorrect`: `Spec => []ReadmissionIsQuiet`, and
`ReferencesCorrect`: `Spec => []ReferencesResolve`, for any number of writes, lost calls and
restarts. The defaulters are idempotent (`DefaultsSettle`), field by field, and what is
stored is what the user asked for or what the defaulter makes of that (`FollowsAsked`),
although the write that reaches the defaulter may be one of the reconciler's. A kind that is
still open was left open by the user, in a reference that is `Untouched` (`RefSettles`).

The assumptions on the constants are `ClusterAssumption`, `ReferencesAssumption`,
`OneOfAKind`, `CopiesAssumption`, `HostDeploymentAssumption` and `AdmissionAssumption`; TLC
evaluates them in the runs. They give the constants their types, but for `OneOfAKind`.

All safety properties that the passing runs check are proved, some of those of `KDexHost`
under the assumptions on `Lagging` and `Removable` named above. Liveness under fairness is
out of the prover's reach and is model-checked only: `TeardownCompletes`,
`LeavesOnlyBinding`, `Converges`, `EventuallyReady`, `Settles` (of `HostDeployment` and of
`Copies`), `Freed`, `DeletedGoes`.

## 5. Not modelled

* Contents of annotations, labels, ConfigMap, Service and rendered pages; the
  attributes of the host's status; the memoized configuration text
  (`kdexhost_controller.go:522-551`). One worker reconciles hosts, so that the lock
  around the memoized values never has a second caller.
* Two hosts that share a ClusterRoleBinding: nothing in the code prevents it, and
  nothing is promised.
* A failed Get of the default translation, which makes a copy with an empty name. In
  `KDexHost` a Get that fails is an error (`Fail`).
* Several objects of a kind in one namespace or in one spec, and lists of references that
  the handler expands with `[*]`: the loops treat the elements alike. No instance of
  `References` has an app or a translation, whose tables repeat others.
* Time: the delayed retry and the periodic resync have no duration. A default
  translation that appears after its hosts were reconciled is picked up by the
  resync at the latest; nothing here depends on it.
* The validator of functions (regular expressions and an external OpenAPI linter
  over one object), rendering of templates, constants that a host's defaulter fills
  in (language, module policy, routing, registries).
* Start-up, RBAC markers, manifests, tests; the page binding and function
  controllers, which register webhooks and reconcile nothing.

## 6. Plan

What is left, in this order:

1. `References`: an abstract specification of readiness over an acyclic graph of objects,
   which the reconcilers implement.
2. `KDexHost`: `ReadyMeansInPlace` and `NoDanglingRefs` under weaker assumptions on what lags
   (a lagging cache of the internal host does no harm without a finalizer).
3. Two hosts that mean the same ClusterRoleBinding, and the teardown of one of them.
4. The route checks of functions, as far as they compare objects with each other.
