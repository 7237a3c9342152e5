# ztoperator in TLA+

ztoperator is a Kubernetes operator. A team describes in an `AuthPolicy` who may
call a workload; the operator turns it into up to six child objects (an Envoy
secret, an EnvoyFilter, a RequestAuthentication and three Istio
AuthorizationPolicies), reports in the AuthPolicy's status and in a gauge how that
went, and reviews the pods that ask to be protected by it. This directory models
the operator, the policies and the script it generates and what they do to a
request; TLC checks the models on small instances, and TLAPS proves all safety
properties that the passing runs check, for all instances.

## The system

| Component | State | Operations | Hard parts |
|---|---|---|---|
| AuthPolicy controller (`internal/controller`) | work queue, the pass under way | `Reconcile`: read, label, resolve, six children, status | works from caches that lag; every API call may fail; restarts |
| Child reconciliation (`pkg/reconciliation`, `internal/reconciler`) | objects on the API server | `ReconcileControllerResource`, `DetermineReconcileAction`, create, patch, delete | check on a copy, write by name; ownership by uid; one of six fails and the loop goes on |
| Status manager (`internal/statusmanager`) | the AuthPolicy's status | `UpdateAuthPolicyStatus`, `UpdateStatus` with retry on conflict, `BuildConditions` | conflicts with the pass's own patch; errors only logged; times kept by comparing with a copy |
| Scope (`internal/state`) | resolved inputs and descendants of one pass | `ReplaceDescendant`, `GetErrors` | descendants are counted |
| Event handlers (`internal/eventhandler`, `SetupWithManager`) | none | watches of AuthPolicies, children, secrets, config maps and pods | `GenerationChangedPredicate` hides label and status changes; an event can be dropped |
| Resolvers (`internal/resolver`) | none | OAuth credentials, discovery document, audiences, auto-login configuration | several reads of caches that change in between; some fail |
| AuthorizationPolicy generators (`pkg/resourcegenerators/authorizationpolicy`) | none | deny, ignore, require | three policies have to add up; a slice shared by all rules |
| Other generators (`pkg/resourcegenerators`) | none | Secret (draws an HMAC key), EnvoyFilter, RequestAuthentication | the HMAC key differs at every call; the order of filters |
| Path validation (`pkg/validation`) | none | classify, validate, transform | Istio has to take what is valid |
| Lua script (`pkg/luascript`) | none | decide about the login, rewrite redirects, match paths | two engines must agree on a rule and on a path |
| Pod webhook (`internal/webhook`) | none | let a pod in or refuse it | two reads of caches that lag |
| Metrics (`pkg/metrics`) | gauge series | refresh, delete, periodic collector | two goroutines without a lock |
| REST client (`pkg/rest`), start-up (`cmd`) | none | fetch the discovery document; flags, TLS, leader election | I/O |

Components interact through the API server: the controller reads informer caches
(versions of objects in the order the server wrote them, some time later), writes
to the server, and is woken by the watch events of its own and of others' writes.
A pass calls the resolvers, validates the paths, calls the generators, compares
and writes each child in the order Secret, EnvoyFilter, RequestAuthentication,
deny, ignore, require, and finally updates the status and the gauge. What it wrote
then meets a request: in the sidecar the Lua script, the OAuth2 filter, the JWT
filter and the RBAC filter follow each other.

What makes it correct: at rest, the children are what the spec and its references
ask for, and status, conditions and gauge say so; nothing that the AuthPolicy does
not control is touched; the status speaks of a generation that exists and never
goes back; the three policies admit exactly the intended requests, and the script
and the policies agree on what needs a login; a verified pod has met its
AuthPolicy; and the system gets there from any mishap.

## Modules

One module per component, a `...Proofs` module for the theorems about it
(`AccessProofs` for both `AuthorizationPolicies` and `AutoLogin`) and an `MC...` module
with the instance for TLC.

* `Resources`: pure definitions. The six kinds, what each generator wants for a
  spec, comparison (`ShouldUpdate`), `UpdateFields`, the merge patch,
  `DetermineReconcileAction`, `DetermineReconciliationState`. An object is its
  owner, the content the operator compares (`body`, the tuple of the generator's
  inputs), its standard labels and one field it does not compare (`extra`: the HMAC
  key). The workload selector and the client id would be compared like the rest of
  the body and are left out.
* `Controller` extends it: one AuthPolicy name, the server (`policy`, `children`,
  `oauth`), the watches (`epolicy`, `echildren`, `eoauth`: versions not yet
  delivered, oldest first), the caches (`cpolicy`, `cchildren`, `coauth`), the
  `queued` request and the `pass`. A pass is cut at every API call.
  `ReconcileGone`, `ReconcileStart`, `PatchLabels`, `PatchLabelsFails`,
  `ResolveAuthPolicy`, `ResolveFails` are the stages of `Reconcile`;
  `ReconcileControllerResource`, `GetFails`, `WriteChild`, `WriteFails` are one
  child (`WriteFails` covers a write that is refused, that fails, and that fails
  after it took effect); `StatusUnchanged`, `UpdateStatus`,
  `UpdateStatusConflict`, `UpdateStatusFails` end the pass; `SyncPolicy`,
  `SyncChild`, `SyncOauth`, `PodEvent` and `Resync` are the watches and their
  handlers; `Crash` is a restart. The rest are users and the garbage collector.
  Each kind of child has a watch of its own; between the three kinds of
  AuthorizationPolicies, which share one, this allows more orders than there are.
* `References`: several AuthPolicies of a namespace that take audiences and
  credentials from config maps and secrets. Three informers (`watch`) deliver
  independently, the handlers queue every AuthPolicy of the namespace
  (`EnqueueAuthPoliciesInNamespace`), and a pass reads one reference after the
  other (`ResolveOAuthCredentials`, `ResolveAudiences`). `EventHandler` may lose an
  event. What `Controller` does with the children is one step here (`Apply`).
* `Conditions`: phase, message and conditions of a status with their transition times.
  A pass reads the AuthPolicy (`cached`) and each child (`seen`) from caches that may be
  behind (`policy`, `children`); it decides on what it read, and its write may be refused
  or may leave a mix of two contents. `pass.read` is the conditions that were read,
  `pass.orig` the status that the result is compared with (the copy after
  `InitializeStatus`, or the answer to the label patch), `pass.outcome` the descendants;
  `BuildConditions` is the condition of the AuthPolicy, of each descendant and of missing
  resources. Missing ones never come up: a wanted child that was not written was at least
  read, and leaves a descendant with an error. `StatusUnchanged` is the skip on DeepEqual,
  `UpdateStatusFails` an update that failed or ran out of attempts. `undisturbed` is a
  history variable.
* `Metrics`: the gauge as a set of series; `worker` and `collector` are the two
  goroutines, one step per call on the gauge, the cache or the server. The worker's
  `DeleteAuthPolicyInfo`, `ListPods`, `SetInfo` and `UpdateStatus` and the
  collector's `Reset`, `List`, `RefreshNext`, `CollectorSetInfo` interleave.
  A well-known URI always parses here (`metrics.go:79`; where it does not, the code gives
  up before the status is written), and `ReconcileUnchanged` compares with the cached
  phase, where the code takes the one in the answer to a label patch if there was one.
  `calm` is a history variable: the round began at rest and nothing happened since.
* `AccessRules`: rules, requests and `Intended`, what an AuthPolicy means.
  `AuthorizationPolicies` extends it with the rules of the three generated policies
  and Istio's evaluation of them (external). `SpecifiedWhen` models what Go's
  `append` does to the base slice that all rules share; `Capacity` is exact up to 64
  conditions (`MaxExact`). A path pattern is the set of
  paths it matches here; `Paths` justifies that.
* `Paths`: a path as a sequence of characters, on its three ways: classification
  and validation, transformation for Istio, and the Lua pattern with Lua's matching
  (the matchers of Lua and Istio are external). A segment is known by the position
  where it starts. A Lua pattern has one item per character of the path: nothing (a
  brace, the second of two asterisks), the character, or a wildcard; what
  `toLuaPattern` does by replacing substrings one after the other, `Wildcard` says of
  each asterisk. The matchers, `LuaFrom` and `TemplateFrom`, are recursive functions
  from a position in the path to the positions of a request from which the rest
  matches. The actions are in the order of the code: the script is made while
  resolving, before the validation.
* `Gateway`: the abstract specification of a protected workload: which answers a
  request may get, by the rules, the token it carries and the session.
  `AutoLogin` extends `AuthorizationPolicies` with the tables of the Lua script
  (`GenerateLuaScript`), the script's decision (`should_bypass`,
  `should_deny_redirect`, `envoy_on_request`), the OAuth2 filter as the generator
  configures it (its matchers are ours, its behaviour external), the JWT and RBAC
  filters and a browser that follows redirects. A request starts without the two headers
  that the script adds (`ztoperator.lua:57`): one that a client sent would be appended to,
  and is not modelled. `Promise` instantiates `Gateway`
  with the request stripped of what the JWT filter adds.
* `Redirects`: from the discovery document (built-in table or fetched,
  `SupportsAutoLogin`, `Usable`) to the `Location` a browser gets
  (`envoy_on_response`), with a query read into a table and written in any order.
* `PodWebhook`: namespace and AuthPolicies on the server, on their way and in the
  webhook's cache; a review is `CreatePod`, `IsWebhookEligible`, `Verify` (or
  `VerifyFails`). `versions` is a history variable.

Definitions commented "Slip" are plausible mistakes in the code a neighbouring
definition models. No specification uses them; putting one in the place of its
neighbour makes TLC refute the property paired with it in `PROJECT.json`, which
shows that the property depends on that code.

## Runs

| Run | Question | Instance |
|---|---|---|
| `safety` | Can the controller come to rest on children or a status that differ from the spec? Does ObservedGeneration stay valid and monotone? Is ownership respected? | plain, invalid and disabled specs; the combinations of `Combined`: two edits; an edit and a failing call; a changed child with either; deletion, recreation and a restart; a restart with a foreign object or stripped labels |
| `live` | Do the children follow the OAuth secret? Do lost events, lost status updates and missing credentials end well? | an auto-login spec and one with rules, between them all six children; the secret is created, changed or deleted once, one list and one status update fail; or a pod event; fair specification |
| `references` | Does every change of a shared config map or secret reach every AuthPolicy? Is an audience ever dropped? | two AuthPolicies, a config map and a secret, three changes, a lost event, a restart |
| `settle` | Do the conditions explain the phase? Does the status stop changing? | two children, specs that want one, both, or (invalid) the first with other content; two disturbances (edits, changed children, stripped labels, failing calls), two clock values; caches as far behind as they like |
| `metrics` | Is the gauge right after a round, and eventually, whatever raced? | one AuthPolicy, two specs, two pods, three changes, a failing call, a restart |
| `webhook` | Is a verified pod one that met its AuthPolicy? Does such a pod get in? | two AuthPolicies that may claim one application, three pods, three changes, one failure |
| `authz` | Do the three policies decide every request as intended? Can auth rules that overwrite each other's conditions let a request in? | up to two auth rules and one ignore rule, overlapping patterns, a method outside the accepted list; the same with five base conditions, where two auth rules share one place |
| `chain` | Do script, filters and policies together keep the AuthPolicy's promise? Does a login end? | one auth and one ignore rule over pages and the paths of the login; auto-login off, with default and with other paths |
| `redirects` | Are redirects of login and logout rewritten as configured, and others left alone? | six discovery documents, one endpoint a prefix of the other, one unusable; parameters, up to two resources, post-logout URI (none, empty, set); plain, empty and repeated parameters |
| `paths` | Do validation, Istio and Lua read a path alike? | every path of up to four pieces, well-formed or not, every request of up to four characters |
| `denyfails`, `spare` | Two statements of comments that the code does not keep (below) | the smallest that shows it |

`AtRest` says that nothing is under way: no request, no pass, no undelivered event,
no garbage. `QuiescentMeansConverged` and `QuiescentMeansReported` do not rely on
the resync, because `Resync` only acts at rest and the properties are about being at
rest. They leave out histories in which a handler dropped an event or a status
update was lost for good, which the code only logs: those are what
`EventuallySettled` is about. `ReferencesCurrent` and `EventuallyCurrent` divide the
work in the same way. `NoPolicyHidden` leaves out failing calls and deletions: the
pass of a deleted AuthPolicy can write its status on the recreated one, whose own
pass may then find the status unchanged, skip `UpdateStatus` and with it the gauge;
the next round of the collector makes up for it (`EventuallyExact`).
`SettledStatusStays` asks for two undisturbed passes, not one: the first may say
"created" or "updated" and the second says "reconciled", with a new transition time. It
counts only passes that read nothing but current copies: a pass that reads a child one
version behind patches it again and says "updated", the next one says "reconciled", and
one that reads an older status gives conditions older times or new ones. Such a pass
starts the count again. `ConditionsExplainPhase` is about every status, whatever the
caches held, with one exception that the code makes and the message tells: after a failed
resolution the phase is Failed beside the conditions that were read
(`authpolicy_controller.go:125`).

**Bounds.** `Budgets` is a set of bounds for the disturbances of `Controller`: a
behaviour stays within one of them, so one run covers several combinations. `MaxLag`
is how many versions a cache may be behind (2: a pass can act on a copy that is older
than its own previous write and than a user's change together; 1 in `live`),
`MaxTries` is client-go's own 4. One AuthPolicy name is enough in `Controller`: child
names are disjoint per AuthPolicy and the worker is single, so passes of different
AuthPolicies do not interleave; `References` has two, for what they share. The other
bounds (`MaxChanges`, `MaxFails`, `MaxSpent`, `MaxLost`, `MaxCrashes`) count
disturbances and are at least two wherever the order of two can matter; one failure
or restart is enough because the system is at rest or back in a state it can already
be in before another would tell anything new. `MaxClock` is 1: one tick tells a time
that was kept from a new one. The proofs remove the bounds for what
they prove. In `authz` and `chain` two rules are the least that overlap, and the
theorems remove that bound too. Four pieces in `paths` fit a segment between two
wildcards and every pair of a brace and a star.

**Fairness.** Weak fairness for the worker's next step, for each informer, for the
garbage collector and for `Resync`. The worker and the informers are loops of
controller-runtime that never stop; rate-limited requeues delay but do not drop a
request. `Resync` is the informers' periodic resync (about ten hours): it delivers
an update event of every cached config map, the config map handler has no predicate
and lists the namespace's AuthPolicies, and every namespace has `kube-root-ca.crt`.
In `References`, `Reconcile(n)` is strongly fair because the work queue is first in,
first out: no AuthPolicy waits for ever behind others that keep coming back. In
`Metrics` the collector's ticker goes on. In `AutoLogin` filters answer and a browser
follows the redirects of a login; nobody has to ask again. In `PodWebhook`
`CreatePod(pod)` is strongly fair: whoever owns a pod (a ReplicaSet) tries again
whenever it can, and a review that is busy with another pod disables it only for a
while. Users and failures are never fair, and their bounds run out.

## What the runs found

* `denyfails`: when an AuthPolicy becomes invalid, the pass first writes the deny-all
  policy and then deletes the ignore and require policies. `doReconcile` goes on after
  an error (`authpolicy_controller.go:163`), so if the write of deny-all fails, the
  others are deleted all the same, and the workload is open until a retry succeeds.
  The generator's comment says "We deny requests for all paths if the configuration is
  invalid".
* `spare`: auth rules append their conditions to a shared slice. With five base
  conditions it has room for a sixth, and the last rule's condition replaces the
  others'. The generator's comment says "Each auth rule should result in an allow rule for
  the specified paths, methods and conditions." The deny policy still enforces all of
  them, so this refuses requests and admits none in error: `NothingAdmittedInError`, in
  the run `authz` and, for every AuthPolicy, in `SharingAdmitsNothing`.

### Observations

Met while modelling; each follows from the lines named, and those with a property to
refute were refuted by TLC with the budget or constant mentioned.

* `reconciler.go:315` (and the patch at 275): ownership is checked on a cached copy,
  and the write goes by name without a uid or resourceVersion precondition. An owned
  child that is deleted and whose name somebody else takes in between is overwritten
  or deleted; with `race` (and an edit and a changed child) allowed in `Budgets`,
  `OnlyControlledObjectsChange` fails. Line 72: "Ztoperator only mutates or deletes
  resources that are controlled by the AuthPolicy in scope." `OnlyControlled` proves
  that there is no other way to it.
* `resources.go:68`: after a rotation, a second pass that reads the Envoy secret one
  version behind writes the same token with a newly drawn HMAC key; sessions end
  although the client secret did not change.
* `resources.go:238`: neither comparison nor update looks at the action of an
  AuthorizationPolicy, so a changed action is never put right. `Matches` compares what
  the code compares.
* `resources.go:26`: a repaired AuthPolicy loses its deny-all policy before its
  require policy exists; between the two writes, or until a retry if the second
  fails, the workload is open (README of the repository, line 39: "require
  authentication by default").
* `status_manager.go:82`: a failing read or delete of a child that is not wanted adds a
  descendant, so the count differs and the phase is Pending, "due to missing
  Descendants", where none is missing. `ConditionsExplainPhase` holds because the
  failing child has its condition.
* `authpolicy_controller.go:125`: a pass that cannot resolve writes phase Failed and leaves
  the conditions it read, so the own condition may say ReconciliationSuccess beside it.
* `authpolicy_config.go:43`: the webhook takes Ready without comparing observedGeneration
  with the generation. Right after an edit it lets a pod in by the Ready of the older
  spec; `VerifiedMetSomeVersion` counts that as a version that existed.
* `status_updater.go:34`: the status of a deleted AuthPolicy's last pass may be written
  on a recreated one; ObservedGeneration is then for a while that of another object,
  which is why the two properties about it end with a recreation.
* `ztoperator.lua:90`: the resolver asks whether `end_session_endpoint` is there, not
  whether it is empty. An empty one is a prefix of every Location, so the script
  rewrites every redirect of the workload.
* `ztoperator.lua:74`: the OAuth2 filter sends a resource parameter for each accepted
  resource. With login parameters configured, the script reads the query into a table
  with one value per key, so of several only one reaches the provider, although
  `authpolicy_types.go:57` says "The resource indicators specified will be added to the
  initial authorize request towards the configured identity provider." In the instance of
  `redirects`, TLC refutes that all of them are there; `LoginParamsMerged` states what does
  hold of every key.
* `path_validation.go:135`: a path that ends with '/' is valid, although
  `authpolicy_types.go:292` says "not ending with '/'". The trimming hides the slash
  from the validation and not from `transformPathForIstio`: `/a{**}/` is valid, stays as
  it is, and Istio refuses it. `ValidIsAccepted` leaves such paths out;
  `LuaAgreesWithIstio` holds for them too, where Istio takes them.
* `pod_webhook.go:179`: a namespace that the cache does not have yet, or cannot read,
  makes a pod not eligible, and it is let in without a review.
* `secret/event_handler.go:21`: the handler skips objects with any AuthPolicy among
  their owners, `Owns` queues only for the controller; the event of an object with an
  AuthPolicy as a plain owner wakes nobody. It counts as a lost event in `References`.

## Proofs

`ControllerProofs` proves, for all specs, budgets and lags:

* `TypeCorrect`: `TypeOK` is an invariant. It is inductive; the work is in the
  lemmas on what generators and merge patches return.
* `OnlyControlled`: if no budget allows `race`, `OnlyControlledObjectsChange`. The
  property is about a write by name that was decided on an old copy, so the
  invariant has to say how old copies relate to what is there now. `InOrder("uid")`:
  the AuthPolicy's uids never decrease from the pass through the cache and the
  watch to the server, so no pass works for an older AuthPolicy than the one before
  it. `HeldCopies`: no copy in the server, watch, cache or pass is of a later
  AuthPolicy than the pass (`Bound`), and where there is a copy of an owned object,
  the name is free or holds an object of the same or a later AuthPolicy.
  `WriteDecided` and `PassUid` tie the pass's copy to its decision. Together they
  squeeze the owner of the object that a patch or delete reaches to the pass's own
  uid. The assumption is needed: see the first observation.
* `ObservedGenerationIsValid`, `ObservedGenerationNeverGoesBack`: from `GenInv`, which
  says that as long as the AuthPolicy was not recreated, versions are in order of their
  generation (`InOrder("gen")`) and the status is not beyond `Bound("gen")`.
  `CountsNeverFall` carries the condition from step to step.

It goes on with `RestIsConverged` and `RestIsReported`: for all specs, budgets and lags the controller comes to rest only on the children and the
status that the spec asks for, unless a handler dropped an event (for the status also:
unless a status update was lost). Both properties speak of states at rest, so the
invariant `ConvInv` has to say of every other state why a difference will still be
found. A state is `Calm` when no request waits and no event is on its way that will
leave one; outside of calm nothing is promised. The parts:

* `UpToDate`: a watch ends with what is on the server, so whatever the cache does not
  have is an event.
* `PolicyEvents`: what `GenerationChangedPredicate` hides makes no difference to a pass.
* `PassShape`: what the pass has noted about the children it is done with.
* `PassCurrent`: in calm the pass works for the current spec and credentials, and what
  it decided to write it decided on the cached copy.
* `Progress`: in calm each child the pass has had its turn with, and at its end every
  child, is as wanted, or an event or the garbage collector will see to it (`Settled`).
* `Report`: in calm and without a pass the status is right.

Calm begins with a pass and nowhere else; in calm no step changes what the pass has
read, and every write makes an event that ends the calm or that no one needs.

`AccessProofs` proves about `AuthorizationPolicies`, for all sets of paths, methods,
conditions and policies whose rules name at least one path and whose base conditions are not
empty (the issuer is always there):

* `Correctness`: without shared spare room (`NoSharing`), a request is admitted iff
  the AuthPolicy intends it.
* `AnonymousRefused`: with or without sharing, a request without a token passes only
  where an ignore rule and no auth rule covers it.
* `SharingAdmitsNothing`: with or without sharing, what the policies admit the AuthPolicy
  admits. Sharing loses conditions of the require policy (`spare`); the deny policy has
  them all, because its generator makes the rules of one auth rule before the next appends.

The invariant only says that the policies are those generated for the AuthPolicy;
the argument is in the lemmas: `DenyMatches`, `IgnoreMatches`, `UnspecifiedMatches`
and `RequireNeedsBase` say what each policy matches, `AllowedIsIntended` and
`IntendedIsAllowed` put them together, `OwnConditions` is where sharing matters.

About `AutoLogin` it proves, under `NoSharing` and for all rules, paths and
configurations, that the chain of filters implements `Gateway`
(`ChainImplementsGateway`), and with it `ScriptAndPoliciesAgree` and `LoginTriggers`.
The invariant is `ChainInv`: the configuration is generated from one AuthPolicy
(`ConfigInv`), the headers say what the script found, a request past the OAuth2
filter bypassed it or has a session, and at the RBAC filter it holds exactly the
claims of its token (`StageInv`). A step that answers is a `Reply` of `Gateway`, by
the theorems on what the policies admit; every other filter's step is a stutter.

`MetricsProofs` proves for any number of AuthPolicies, pods, changes, failures and
restarts `TypeCorrect` (with `Holding`: a goroutine in mid-refresh holds an AuthPolicy)
and `CalmRoundRepairs`. `CalmInv` says what an undisturbed round has achieved so far:
the gauge holds the series of the AuthPolicies it is done with (`Due`) and, of the one
it is at, those of the pods it has set (`Progress`). `NoneHidden` is about everything
else that may happen: `ShownInv` says of every AuthPolicy, as long as no call failed and
none was deleted, that it has a series, or is not cached yet, or that the worker or the
collector is about to set one, or that it waits for its first pass (`FirstPassDue`). The
last is the delicate one: only a pass that finds a status may skip the gauge, and a
status is only there once a pass has set the series.

`PodWebhookProofs` proves `VerifiedPodsMetTheirPolicy`: the cache and all that is on
its way to it are versions that existed (`CacheInv`), and a review decides on one read.

`ReferencesProofs` proves `AudiencesComplete`: `RefInv` says that caches and watches
hold specs the AuthPolicy had (`SpecsKnown`), that a pass has resolved a prefix of one
of them (`PassSound`), and that what was applied was complete. It also proves
`RestIsCurrent`: unless an event was lost, no AuthPolicy rests on audiences or
credentials that are not the current ones. `CurInv` says that whatever is newer on the
server than in a cache is an event (`Watched`), and of every AuthPolicy (`SeenTo`) that
something will wake it (`Waking`: a request, or an event of its own or of any source),
or that its pass has read nothing but current values so far (`PassCurrent`), or that
what it applied is current.

`ConditionsProofs` proves `PhaseExplained` and the action property `SettledStays` for
any kinds, specs and bounds, and caches that lag as they like. The invariant `CondInv`: a
pass leaves a trace of every wanted child it is done with, and of others only on failure
(`Shape`), so a Pending phase comes with a failed child although the counts alone would
not say so (`StateExplained`); a pass that is current compares with the conditions on the
server and has made each child it is done with as wanted (`CurrentPass`), because a write
decided on a current copy leaves what was asked for (`ChildAsWanted`); after one undisturbed
pass the children are as wanted, so the next says "reconciled" of each (`Settled`), and
after that the conditions compared with are logically equal to those built, and their times
stay (`SettledTold`). Whether the status is written or skipped makes no difference then
(`CurrentReported`): the copy compared with is Pending, or it is what the server has.

`RedirectsProofs` proves `OthersUntouched`, `LoginsMerged` and `LogoutsAsConfigured` for
all providers, AuthPolicies and Locations, under two assumptions on addresses. No
workload redirects to where an endpoint of the provider begins (`WorkloadsApart`; this
excludes the empty end session endpoint of the observation above, which begins every
address), and for the last two theorems the authorize endpoint does not begin with the
end session endpoint (`LogoutApart`). The instance of the run satisfies both. The
invariant `RedirectInv` ties the URIs in use to one usable document and every redirect
to its sender; `QueryOfTable` is the lemma on Lua's tables: whatever order `pairs`
gives, the query has exactly the table's values (by the pigeonhole principle).
`LoginsMerged` says of every key of a login what becomes of it: configured, it has the
configured value and no other; occurring once, it keeps its value; repeated, it keeps some
of them (the observation above is about those it loses); and no other key is added.

`PathsProofs` proves all three properties of `Paths`, for paths and requests of any
length over any characters. The assumption (`PathsAssumption`) is that the items of a
pattern are no characters, and that `validLiteral` admits neither slash nor asterisk nor
brace.

* `ConversionNeverPanics`: no character of any path leaves an asterisk or a brace.
* `ValidPathsAreAccepted`: by what a valid path can look like (`ValidShape`). It is
  plain; or plain with an asterisk at the end; or plain with `{**}` after a literal at
  the end (`Suffixed`), of which the transformation makes the former; or it consists of
  literals and operators, each a segment of its own (`Templated`), and the
  transformation leaves it alone.
* `ScriptReadsPathsLikeIstio`: by the same shapes; `SlashedShape` adds the templates that
  end with a slash and that Istio takes. A run of characters takes itself (`PlainRun`),
  so a plain path matches one request and the next two match a prefix. For templates,
  the claim is that from the start of any segment the positions of the request at which
  a segment begins and from which the script matches the rest are those of Istio. It is
  proved from the last segment back (`TemplateReadingsAgree`): where the readings agree
  after a segment, they meet at its end (`ReadingsMeet`: the script can only be at the
  end of a segment of the request there), and then they agree on the segment, a literal
  (`PlainSegmentAgrees`), `{*}` or `{**}` (`OneSegmentAgrees`, `AnySegmentAgrees`). The
  last is where backtracking is: `.*` stops anywhere, and `EndOfSome` finds the segment
  that ends there.

The invariant `PathsInv` only says which function each variable came from; the work is
in the lemmas. They need induction, which is by least elements here: `Least` (from the
library's `WFMin`) gives a set of numbers its least one, and `Induction` and `Greatest`
follow for sets instead of predicates. `Downward` shows from it that a function defined
by recursion towards larger positions exists, and `LuaUnfold` and `TemplateUnfold` that
the two matchers satisfy their equations.

TLC checked `ConvInv`, `CurInv`, `ShownInv`, `CondInv` and `RedirectInv` on the instances of
the runs before they were proved.

Only model-checked: liveness (`EventuallySettled`, `EventuallyFailed`,
`EventuallyCurrent`, `EventuallyExact`, `LoginEnds`, `MeetingPodGetsIn`), which needs
fairness and is out of the prover's reach; and of course the two statements that the
code does not keep.

## Not modelled, and what is left

Not modelled: HTTP and JSON (`pkg/rest`), start-up (`cmd`: flags, TLS, the manager;
leader election leaves one worker, as `Controller` assumes), generated code
(`zz_generated.deepcopy.go`), the tool in `hack/`, logging and Kubernetes events; of
the EnvoyFilter the OAuth cluster, cookies and the files of the secret; `EscapeLuaString`
(strings are model values); claims that are forwarded as headers; what the schema
validates by itself. Rules with an empty path list are left out of `AccessRules`: the
schema admits them and Istio reads them as every path.

Left to do: the composition of `Controller` with `AuthorizationPolicies`, for what a
request meets between two writes of a pass.
