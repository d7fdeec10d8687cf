------------------------------ MODULE PodBuild ------------------------------
(***************************************************************************)
(* What a pod is built of: the volumes of the volumes controller, the      *)
(* images PullImage fetches, and the containers made from both, over the   *)
(* calls CreatePod gets for one pod while the API's secrets change.  Spec  *)
(* files, registration and start are in PodLifecycle.                      *)
(***************************************************************************)
EXTENDS ContainerConfig

CONSTANTS
  Pods,        \* the pods to choose from
  Secrets,     \* names of secrets
  SecretStates,\* what a secret may hold: [type, data, opens], opens being the
               \* images the registry gives for the credentials in it, or None
               \* where PullImage can read none
  PublicImages,\* images the registry gives to anyone
  MaxAttempts, \* bound on the calls of CreatePod
  MaxChanges,  \* bound on the changes of secrets
  MaxFaults    \* bound on failing calls of podman, the registry and the API

\* The items of a volume: no two at one path, and none where the links of the
\* volume itself are.
IsPath(path) == IsList(path) /\ path # <<>> /\ path[1] # "..data"
AreItems(items) ==
  /\ \A item \in items : IsPath(item.path)
  /\ \A item, other \in items : item.path = other.path => item = other

IsVolume(v) ==
  /\ v.kind = "secret" => /\ v.secretName \in Secrets
                          /\ v.optional \in BOOLEAN
                          /\ v.items = None \/ AreItems(v.items)
  /\ v.kind = "projected" => AreItems(v.tokens)

ASSUME PodsAssumption ==
  \A p \in Pods : /\ IsPodSpec(p)
                  /\ \A v \in ToSet(p.volumes) : IsVolume(v)
                  /\ ToSet(p.imagePullSecrets) \subseteq Secrets

\* The keys of a secret are file names that do not begin with two dots; None is no
\* secret and no text of a pull.
ASSUME SecretsAssumption ==
  /\ \A s \in SecretStates : "..data" \notin DOMAIN s.data
  /\ None \notin SecretStates
  /\ None \notin {"copying", "trying", "unauthorized", "broken"}

ASSUME BoundsAssumption == {MaxAttempts, MaxChanges, MaxFaults} \subseteq Nat

VARIABLES
  pod,      \* the Pod of this behaviour
  secrets,  \* the API: name to state, or None
  volumes,  \* podman's volumes: name to [labelled, files]
  images,   \* podman's images
  made,     \* podman's pod exists
  cons,     \* podman's containers, as they were asked for
  work,     \* the call of CreatePod, if there is one
  offered,  \* what the API held of each secret while the volumes were made
  unanswered, \* the volumes for whose secret the API gave no answer then
  budget    \* what is left of the three bounds

podman == <<volumes, images, made, cons>>
history == <<offered, unanswered>>
vars == <<pod, secrets, podman, work, history, budget>>

Volume(name) == <<pod.uid, name>>
Idle == [step |-> "idle"]

Init ==
  /\ pod \in Pods
  /\ secrets \in [Secrets -> SecretStates \union {None}]
  /\ volumes = <<>>
  /\ images \in SUBSET {con.image : con \in ToSet(pod.containers)}
  /\ made = FALSE
  /\ cons = {}
  /\ work = Idle
  /\ offered = [s \in Secrets |-> {}]
  /\ unanswered = {}
  /\ budget = [attempts |-> MaxAttempts, changes |-> MaxChanges, faults |-> MaxFaults]

Spend(what) == budget[what] > 0 /\ budget' = [budget EXCEPT ![what] = @ - 1]

At(step) == work.step = step
MakingVolumes == work.step \in {"volumes", "inject"}

\* A secret is made, edited or removed.
SecretChanges ==
  /\ Spend("changes")
  /\ \E s \in Secrets, state \in SecretStates \union {None} :
       /\ secrets[s] # state
       /\ secrets' = [secrets EXCEPT ![s] = state]
       /\ offered' = IF MakingVolumes THEN [offered EXCEPT ![s] = @ \union {state}] ELSE offered
  /\ UNCHANGED <<pod, podman, work, unanswered>>

Goto(step) == work' = [work EXCEPT !.step = step]
Return == work' = Idle

\* CreatePod overwrites the status before anything reads its QoS class.
CreatePod ==
  /\ At("idle")
  /\ Spend("attempts")
  /\ pod' = [pod EXCEPT !.qosClass = NoQOSClass]
  /\ work' = [step |-> "cleanup", next |-> 1, pull |-> <<>>, tries |-> 0, pulled |-> FALSE]
  /\ UNCHANGED <<secrets, podman, history>>

\* A call fails without having its effect, and CreatePod returns; a failure of a
\* call that did have its effect is that call's step followed by this one.  Where
\* more comes of it there is an action of its own.
Fails ==
  /\ work.step \notin {"idle", "cleanup", "inject"}
  /\ Spend("faults")
  /\ Return
  /\ UNCHANGED <<pod, secrets, podman, history>>

-----------------------------------------------------------------------------
(* Volumes *)

Labelled == {v \in DOMAIN volumes : volumes[v].labelled}
NamesOf(c) == {v.Name : v \in c.Volumes}
Used == UNION {NamesOf(c) : c \in cons}
Only(vols) == [v \in vols |-> volumes[v]]

\* Mutant of CleanupVolumes: volumes of an earlier call are used as they are.
CleanupVolumes_Skipped ==
  /\ At("cleanup")
  /\ Goto("volumes")
  /\ UNCHANGED <<pod, secrets, podman, history, budget>>

\* The pod's volumes are removed one by one; podman refuses one that is in use.
CleanupVolumes ==
  /\ At("cleanup")
  /\ IF Labelled \intersect Used = {}
     THEN /\ Goto("volumes")
          /\ volumes' = Only(DOMAIN volumes \ Labelled)
          /\ offered' = [s \in Secrets |-> {secrets[s]}]
          /\ unanswered' = {}
     ELSE /\ Return
          /\ UNCHANGED history
          /\ \E gone \in SUBSET (Labelled \ Used) : volumes' = Only(DOMAIN volumes \ gone)
  /\ UNCHANGED <<pod, secrets, images, made, cons, budget>>

\* The list of volumes, or the removal of one, fails for another reason.
CleanupFails ==
  /\ At("cleanup")
  /\ Spend("faults")
  /\ \E gone \in SUBSET (Labelled \ Used) : volumes' = Only(DOMAIN volumes \ gone)
  /\ Return
  /\ UNCHANGED <<pod, secrets, images, made, cons, history>>

AtVolume(kinds) ==
  At("volumes") /\ work.next \in DOMAIN pod.volumes /\ pod.volumes[work.next].kind \in kinds
This == pod.volumes[work.next]

\* A function with one more entry, or with one replaced.
Put(f, key, value) == [x \in DOMAIN f \union {key} |-> IF x = key THEN value ELSE f[x]]

\* podman refuses a name it has, and CreatePod returns; else it goes on.
CreateRuntimeVolume(files, GoOn) ==
  IF Volume(This.name) \in DOMAIN volumes
  THEN Return /\ UNCHANGED volumes
  ELSE /\ volumes' = Put(volumes, Volume(This.name), [labelled |-> TRUE, files |-> files])
       /\ GoOn

\* Mounted later, or not supported: nothing to do but a message.
SkipVolume ==
  /\ At("volumes") /\ work.next \in DOMAIN pod.volumes
  /\ ~AtVolume({"emptyDir", "secret", "projected"})
  /\ work' = [work EXCEPT !.next = @ + 1]
  /\ UNCHANGED <<pod, secrets, podman, history, budget>>

CreateEmptyDir ==
  /\ AtVolume({"emptyDir"})
  /\ CreateRuntimeVolume(<<>>, work' = [work EXCEPT !.next = @ + 1])
  /\ UNCHANGED <<pod, secrets, images, made, cons, history, budget>>

\* The volume comes first, then the secret is asked for.
CreateSecretVolume ==
  /\ AtVolume({"secret"})
  /\ CreateRuntimeVolume(<<>>, Goto("inject"))
  /\ UNCHANGED <<pod, secrets, images, made, cons, history, budget>>

\* The files of a volume: the data below the version, "current" leading there, and
\* a link for each item, up from its directory.  A path is a sequence of names.
File(data) == [link |-> FALSE, data |-> data]
Link(up, to) == [link |-> TRUE, up |-> up, to |-> to]

Current == <<"..data", "current">>
Versioned(version, path) == <<"..data", version>> \o path

Held(items, data) == {item \in items : item.key \in DOMAIN data}
Paths(items) == {item.path : item \in items}

Extracted(version, items, data) ==
  LET held == Held(items, data)
      files == {Versioned(version, path) : path \in Paths(held)}
  IN [p \in files \union {Current} \union Paths(items) |->
        IF p \in files
          THEN File(data[(CHOOSE item \in held : Versioned(version, item.path) = p).key])
        ELSE IF p = Current THEN Link(0, <<version>>)
        ELSE Link(Len(p) - 1, Current \o p)]

SecretItems(source, data) ==
  IF source.items = None THEN {[key |-> k, path |-> <<k>>] : k \in DOMAIN data} ELSE source.items

\* Mutant of WithoutSecret: nothing is asked of the secret's being optional.
WithoutSecret_Ignored == Goto("podcreate") /\ UNCHANGED volumes

\* The answer to GetSecret, if it is an error: ignored for an optional secret, the
\* volume of which stays empty.
WithoutSecret == (IF This.optional THEN Goto("podcreate") ELSE Return) /\ UNCHANGED volumes

\* After the FIRST secret volume CreatePodVolumes returns.
InjectSecret ==
  /\ At("inject")
  /\ LET secret == secrets[This.secretName]
     IN IF secret = None THEN WithoutSecret
        ELSE /\ volumes' = [volumes EXCEPT ![Volume(This.name)].files =
                              Extracted("version", SecretItems(This, secret.data), secret.data)]
             /\ Goto("podcreate")
  /\ UNCHANGED <<pod, secrets, images, made, cons, history, budget>>

\* The API does not answer, or with another error, whatever it holds.
SecretUnanswered ==
  /\ At("inject")
  /\ Spend("faults")
  /\ WithoutSecret
  /\ unanswered' = unanswered \union {This.name}
  /\ UNCHANGED <<pod, secrets, images, made, cons, offered>>

\* The extraction cannot be started, or only some of the files of the secret have
\* been written when it or the copying fails.
InjectFails ==
  /\ At("inject") /\ secrets[This.secretName] # None
  /\ Spend("faults")
  /\ LET data == secrets[This.secretName].data
     IN \/ UNCHANGED volumes
        \/ \E items \in SUBSET SecretItems(This, data) :
             volumes' = [volumes EXCEPT ![Volume(This.name)].files = Extracted("version", items, data)]
  /\ Return
  /\ UNCHANGED <<pod, secrets, images, made, cons, history>>

TokensOf(tokens) == [k \in {t.key : t \in tokens} |-> "token"]

\* Only the tokens of a projected volume are looked at; they are asked for before
\* the volume is made.  It too is the last.
CreateProjectedVolume ==
  /\ AtVolume({"projected"})
  /\ CreateRuntimeVolume(Extracted("now", This.tokens, TokensOf(This.tokens)), Goto("podcreate"))
  /\ UNCHANGED <<pod, secrets, images, made, cons, history, budget>>

\* The volume is there, its tokens are not, or not all.
ProjectionFails ==
  /\ AtVolume({"projected"})
  /\ Spend("faults")
  /\ \E tokens \in SUBSET This.tokens :
       CreateRuntimeVolume(Extracted("now", tokens, TokensOf(tokens)), Return)
  /\ UNCHANGED <<pod, secrets, images, made, cons, history>>

VolumesDone ==
  /\ At("volumes") /\ work.next \notin DOMAIN pod.volumes
  /\ Goto("podcreate")
  /\ UNCHANGED <<pod, secrets, podman, history, budget>>

-----------------------------------------------------------------------------
(* The pod and its containers *)

PodCreate ==
  /\ At("podcreate")
  /\ IF made THEN Return ELSE Goto("secrets")
  /\ made' = TRUE
  /\ UNCHANGED <<pod, secrets, volumes, images, cons, history, budget>>

\* Every pull secret must be there; what they hold now is used for the whole call.
GrabPullSecrets ==
  /\ At("secrets")
  /\ LET refs == [i \in DOMAIN pod.imagePullSecrets |-> secrets[pod.imagePullSecrets[i]]]
     IN IF None \in ToSet(refs) THEN Return
        ELSE work' = [work EXCEPT !.step = "containers", !.next = 1, !.pull = refs]
  /\ UNCHANGED <<pod, secrets, podman, history, budget>>

Con == pod.containers[work.next]
AtCon == At("containers") /\ work.next \in DOMAIN pod.containers

\* What podman answers to a pull: a stream of reports, which may end early.  A
\* request that is refused at once counts as a stream of its error.
Stream(line) == [kind |-> "stream", text |-> line]
Error(text) == [kind |-> "error", text |-> text]
Images(image) == [kind |-> "images", text |-> image]

\* processPullStream: the last error, or the last line if there are no images.
Reports(events, kind) == {i \in DOMAIN events : events[i].kind = kind}
LastText(events, kind) == events[Max(Reports(events, kind))].text

\* Mutant of processPullStream: the stream's errors are only logged.
processPullStream_NoErrors(events) ==
  IF Reports(events, "images") = {} /\ Reports(events, "stream") # {}
  THEN LastText(events, "stream")
  ELSE None

processPullStream(events) ==
  IF Reports(events, "error") # {} THEN LastText(events, "error")
  ELSE IF Reports(events, "images") = {} /\ Reports(events, "stream") # {}
  THEN LastText(events, "stream")
  ELSE None

\* The registry gives an image, or refuses it in either of two ways.
Answers(image, given) ==
  IF given THEN {<<Stream("copying"), Images(image)>>}
           ELSE {<<Error("unauthorized")>>, <<Stream("trying"), Error("unauthorized")>>}

\* The connection to the registry or to podman breaks.
BrokenAnswers == {<<>>, <<Stream("copying")>>, <<Stream("copying"), Error("broken")>>}

\* The image arrived, whatever becomes of the rest of the stream.
Arrives(image, events) == images' = images \union (IF Images(image) \in ToSet(events) THEN {image} ELSE {})

\* A pull is due: before the container under Always, after a refusal of podman
\* under IfNotPresent; each ContainerCreate follows the pull, if any.
StartPull ==
  /\ AtCon
  /\ ~work.pulled
  /\ \/ Con.imagePullPolicy = "Always"
     \/ Con.imagePullPolicy = "IfNotPresent" /\ Con.image \notin images
  /\ work' = [work EXCEPT !.step = "pull", !.tries = 0]
  /\ UNCHANGED <<pod, secrets, podman, history, budget>>

\* What the k-th request gets at, made as nobody and then with the pull secrets in
\* their order.
Opened(k) == IF k = 0 THEN PublicImages ELSE work.pull[k].opens

PullDone == work' = [work EXCEPT !.step = "containers", !.pulled = TRUE]
NextPull == work' = [work EXCEPT !.tries = @ + 1]

\* A secret PullImage reads credentials from: of the type for them, and in JSON as
\* it expects it.  Nobody's request needs none.
HasCredentials(k) == k > 0 => work.pull[k].type = "dockerconfigjson" /\ work.pull[k].opens # None

\* Mutant of Pull: a refusal of credentials is final.
Pull_FirstSecretOnly ==
  /\ At("pull") /\ work.tries \in {0} \union DOMAIN work.pull
  /\ IF ~HasCredentials(work.tries)
     THEN Return /\ UNCHANGED <<images, budget>>
     ELSE \E events \in Answers(Con.image, Con.image \in Opened(work.tries))
                          \union BrokenAnswers :
            /\ IF events \in BrokenAnswers THEN Spend("faults") ELSE UNCHANGED budget
            /\ Arrives(Con.image, events)
            /\ CASE processPullStream(events) = None -> PullDone
                 [] processPullStream(events) = "unauthorized" /\ work.tries = 0 -> NextPull
                 [] OTHER -> Return
  /\ UNCHANGED <<pod, secrets, volumes, made, cons, history>>

\* One request of PullImage: "unauthorized" goes on to the next secret, another
\* error, or a secret without credentials, ends CreatePod.
Pull ==
  /\ At("pull") /\ work.tries \in {0} \union DOMAIN work.pull
  /\ IF ~HasCredentials(work.tries)
     THEN Return /\ UNCHANGED <<images, budget>>
     ELSE \E events \in Answers(Con.image, Con.image \in Opened(work.tries))
                          \union BrokenAnswers :
            /\ IF events \in BrokenAnswers THEN Spend("faults") ELSE UNCHANGED budget
            /\ Arrives(Con.image, events)
            /\ CASE processPullStream(events) = None -> PullDone
                 [] processPullStream(events) = "unauthorized" -> NextPull
                 [] OTHER -> Return
  /\ UNCHANGED <<pod, secrets, volumes, made, cons, history>>

\* No secret helped.  PullImage returns the error of the first request, if it was
\* refused at once; the error of its stream, and every error of the loop, went to
\* variables of their own (authBody, err := declares one per round), so that
\* PullImage then returns nil.
PullGivesUp ==
  /\ At("pull") /\ work.tries > Len(work.pull)
  /\ PullDone \/ Return
  /\ UNCHANGED <<pod, secrets, podman, history, budget>>

\* podman makes the volumes that are missing, without labels.
WithMissing(names) ==
  [v \in DOMAIN volumes \union names |->
     IF v \in DOMAIN volumes THEN volumes[v] ELSE [labelled |-> FALSE, files |-> <<>>]]

\* The pod's ID is lost for a container made after a pull on demand.
PodId == IF work.pulled /\ Con.imagePullPolicy = "IfNotPresent" THEN None ELSE pod.uid

\* A container with this name must not exist yet.
ContainerCreate ==
  /\ AtCon
  /\ Con.image \in images
  /\ Con.imagePullPolicy = "Always" => work.pulled
  /\ LET c == ConvertContainerConfig(pod, Con, PodId)
     IN IF \E d \in cons : d.Name = c.Name
        THEN Return /\ UNCHANGED <<volumes, cons>>
        ELSE /\ cons' = cons \union {c}
             /\ volumes' = WithMissing(NamesOf(c))
             /\ work' = [work EXCEPT !.next = @ + 1, !.pulled = FALSE]
  /\ UNCHANGED <<pod, secrets, images, made, history, budget>>

\* "no such image", finally.
NoSuchImage ==
  /\ AtCon
  /\ Con.image \notin images
  /\ work.pulled \/ Con.imagePullPolicy = "Never"
  /\ Return
  /\ UNCHANGED <<pod, secrets, podman, history, budget>>

\* All containers are there; the rest of CreatePod is PodLifecycle's.
Created ==
  /\ At("containers") /\ work.next \notin DOMAIN pod.containers
  /\ Return
  /\ UNCHANGED <<pod, secrets, podman, history, budget>>

BuildVolumes ==
  \/ CleanupVolumes
  \/ CleanupFails
  \/ SkipVolume
  \/ CreateEmptyDir
  \/ CreateSecretVolume
  \/ InjectSecret
  \/ SecretUnanswered
  \/ InjectFails
  \/ CreateProjectedVolume
  \/ ProjectionFails
  \/ VolumesDone

BuildContainers ==
  \/ PodCreate
  \/ GrabPullSecrets
  \/ StartPull
  \/ Pull
  \/ PullGivesUp
  \/ ContainerCreate
  \/ NoSuchImage
  \/ Created

Next == SecretChanges \/ CreatePod \/ BuildVolumes \/ BuildContainers \/ Fails

Spec == Init /\ [][Next]_vars

-----------------------------------------------------------------------------
(* Properties *)

\* What podman was asked to make is of the types of its API.
TypeOK ==
  /\ \E p \in Pods : pod \in {p, [p EXCEPT !.qosClass = NoQOSClass]}
  /\ secrets \in [Secrets -> SecretStates \union {None}]
  /\ \A v \in DOMAIN volumes : volumes[v].labelled \in BOOLEAN
  /\ images \subseteq {con.image : con \in ToSet(pod.containers)}
  /\ made \in BOOLEAN
  /\ \A c \in cons : IsSpecGenerator(c)
  /\ work.step \in {"idle", "cleanup", "volumes", "inject", "podcreate", "secrets",
                    "containers", "pull"}

\* What a reader of the volume finds at a path: one link of an item, and the link
\* of the current version.
Read(files, path) ==
  LET to   == SubSeq(path, 1, Len(path) - 1 - files[path].up) \o files[path].to
      real == IF IsPrefix(Current, to) /\ Current \in DOMAIN files
              THEN Versioned(files[Current].to[1], SubSeq(to, 3, Len(to))) ELSE to
  IN IF path \in DOMAIN files /\ real \in DOMAIN files THEN files[real].data ELSE None

\* The files asked for, by path, of a volume filled from such data: a key it does
\* not have is not readable.
Holds(v, files, data) ==
  \A item \in SecretItems(v, data) :
    Read(files, item.path) = IF item.key \in DOMAIN data THEN data[item.key] ELSE None

\* A volume as its containers are to find it: a secret as the API held it at one time
\* since the clean-up.  Only an optional one may be missing, and only if it was not
\* there or the API did not answer.
Served(v, files, offers, gaps) ==
  CASE v.kind = "secret" ->
         \/ \E state \in offers[v.secretName] : state # None /\ Holds(v, files, state.data)
         \/ /\ files = <<>>
            /\ v.optional
            /\ None \in offers[v.secretName] \/ v.name \in gaps
    [] v.kind = "projected" -> \A t \in v.tokens : Read(files, t.path) = "token"
    [] OTHER -> files = <<>>

\* CreatePodVolumes gets as far as the first secret or projected volume.
Reached(i) == \A j \in 1..(i - 1) : pod.volumes[j].kind \notin {"secret", "projected"}

\* A container that mounts a volume of a kind the node implements finds in it what
\* the API held while the volumes of this very CreatePod were made, whatever failed
\* in earlier ones -- unless the volume comes after a secret or projected one: then
\* podman made an empty one in its place.
VolumesServed ==
  \A c \in cons, k \in ToSet(pod.containers) : c.Name[3] = k.name =>
    \A m \in ToSet(k.volumeMounts), i \in DOMAIN pod.volumes :
      /\ m.name = pod.volumes[i].name
      /\ pod.volumes[i].kind \in {"emptyDir", "secret", "projected"}
      /\ Reached(i)
      => \E v \in c.Volumes :
           /\ v.Dest = m.mountPath
           /\ volumes[v.Name].labelled
           /\ Served(pod.volumes[i], volumes[v.Name].files, offered, unanswered)

\* Once the clean-up is through, nothing an earlier CreatePod or podman left behind is
\* in the way of the pod's volumes: past it the making of a volume only fails with a
\* call.  (A container left over keeps its volumes, and fails the clean-up itself.)
NoVolumeRefused ==
  [][At("volumes") /\ work' = Idle => budget' # budget]_vars

\* PullImage reports success only with the image in the store, unless the stream
\* broke off or the registry refused every request.
PullTellsTruth ==
  [][At("pull") /\ work'.step = "containers" =>
       Con.image \in images' \/ budget' # budget \/ work.tries > Len(work.pull)]_vars

\* If nothing breaks, an image that is public or that one of the pull secrets
\* opens is in the store when PullImage ends, whatever secrets come before it as
\* long as there are credentials in them.
PullFindsCredentials ==
  [][At("pull") /\ work'.step # "pull" /\ budget' = budget =>
       \A k \in {0} \union DOMAIN work.pull :
         /\ \A j \in 0..k : HasCredentials(j)
         /\ Con.image \in Opened(k)
         => Con.image \in images']_vars

\* Of the containers of a pod that is not critical to the system, the one that
\* requests more memory is not killed before one that requests less, whatever the
\* host has; CPU time is what was asked for, to the unit, but never below the kernel's
\* minimum.
ResourcesInOrder ==
  \A c \in cons, k \in ToSet(pod.containers) : c.Name[3] = k.name =>
    /\ pod.priority < 2000000000 =>
         \A d \in cons, l \in ToSet(pod.containers) :
           d.Name[3] = l.name /\ k.memoryRequest > l.memoryRequest =>
             c.OOMScoreAdj <= d.OOMScoreAdj
    /\ LET r == c.ResourceLimits
       IN /\ r.Shares = 2 \/ 1000 * r.Shares <= 1024 * k.cpuRequest
          /\ 1000 * (r.Shares + 1) > 1024 * k.cpuRequest
          /\ k.cpuLimit >= 10 => r.Quota * 1000 = k.cpuLimit * CpuPeriod
          /\ k.cpuLimit \in 1..9 => r.Quota = 1000

-----------------------------------------------------------------------------
(* The inductive invariant behind the properties *)

\* A call of CreatePod is somewhere, and gets past a step only in order.
Calls == [step : {"cleanup", "volumes", "inject", "podcreate", "secrets", "containers", "pull"},
          next : Nat \ {0}, pull : Seq(SecretStates), tries : Nat, pulled : BOOLEAN]

WorkInOrder ==
  /\ work \in {Idle} \union Calls
  /\ At("cleanup") => work.next = 1
  /\ At("volumes") => work.next <= Len(pod.volumes) + 1 /\ Reached(work.next)
  /\ At("inject") => /\ work.next \in DOMAIN pod.volumes
                    /\ This.kind = "secret"
                    /\ Reached(work.next)
  /\ At("pull") => work.next \in DOMAIN pod.containers /\ work.tries <= Len(work.pull) + 1

BudgetOK == budget \in [{"attempts", "changes", "faults"} -> Nat]

\* The Pod is one of Pods, with its status overwritten from the first call on.
Overwritten(p) == [p EXCEPT !.qosClass = NoQOSClass]
PodKept ==
  \E p \in Pods :
    /\ pod \in {p, Overwritten(p)}
    /\ ~At("idle") \/ cons # {} => pod = Overwritten(p)

\* Containers are made of the Pod's, under different names, after podman's pod.
ConsConverted ==
  /\ \A c \in cons : \E k \in ToSet(pod.containers), id \in {pod.uid, None} :
       c = ConvertContainerConfig(pod, k, id)
  /\ cons # {} \/ work.step \in {"secrets", "containers", "pull"} => made

\* What is mounted is there; and a call that got past the clean-up found nothing
\* labelled in use.
VolumesKept ==
  /\ \A v \in DOMAIN volumes : /\ DOMAIN volumes[v] = {"labelled", "files"}
                              /\ volumes[v].labelled \in BOOLEAN
  /\ Used \subseteq DOMAIN volumes
  /\ work.step \in {"volumes", "inject", "podcreate"} => Labelled \intersect Used = {}

\* While the volumes are made, what the API holds has been noted.
OffersNoted ==
  /\ offered \in [Secrets -> SUBSET (SecretStates \union {None})]
  /\ MakingVolumes => \A s \in Secrets : secrets[s] \in offered[s]

\* A volume the code gets to, as the container is to find it.
Implemented(i) == pod.volumes[i].kind \in {"emptyDir", "secret", "projected"} /\ Reached(i)
IsServed(i) ==
  LET v == Volume(pod.volumes[i].name)
  IN volumes[v].labelled /\ Served(pod.volumes[i], volumes[v].files, offered, unanswered)
Filled(i) == Implemented(i) => Volume(pod.volumes[i].name) \in DOMAIN volumes /\ IsServed(i)

\* The volumes still to be made are not there: those of earlier calls have been
\* removed, and podman made none in the place of one the code gets to.
NoneLeft ==
  /\ At("volumes") =>
       \A i \in DOMAIN pod.volumes :
         i >= work.next /\ Volume(pod.volumes[i].name) \in DOMAIN volumes =>
           ~volumes[Volume(pod.volumes[i].name)].labelled
  /\ \A i \in DOMAIN pod.volumes :
       Implemented(i) /\ Volume(pod.volumes[i].name) \in DOMAIN volumes =>
         volumes[Volume(pod.volumes[i].name)].labelled

\* The volumes this call has made so far, and the one it is filling.
FilledSoFar ==
  /\ work.step \in {"volumes", "inject"} =>
       \A i \in DOMAIN pod.volumes : i < work.next => Filled(i)
  /\ At("inject") =>
       LET v == Volume(This.name)
       IN v \in DOMAIN volumes /\ volumes[v].labelled /\ volumes[v].files = <<>>
  /\ work.step \in {"podcreate", "secrets", "containers", "pull"} =>
       \A i \in DOMAIN pod.volumes : Filled(i)

\* What containers have mounted stays as they found it.
MountedServed ==
  \A c \in cons, i \in DOMAIN pod.volumes :
    Implemented(i) /\ Volume(pod.volumes[i].name) \in NamesOf(c) => IsServed(i)

\* The credentials tried so far did not open the image.
PullTried ==
  At("pull") =>
    \A k \in {0} \union DOMAIN work.pull : k < work.tries => Con.image \notin Opened(k)

BuildInv ==
  /\ WorkInOrder
  /\ BudgetOK
  /\ PodKept
  /\ secrets \in [Secrets -> SecretStates \union {None}]
  /\ images \subseteq {con.image : con \in ToSet(pod.containers)}
  /\ made \in BOOLEAN
  /\ ConsConverted
  /\ VolumesKept
  /\ OffersNoted
  /\ NoneLeft
  /\ FilledSoFar
  /\ MountedServed
  /\ PullTried
=============================================================================
