----------------------------- MODULE MCPodBuild -----------------------------
(* Instance of PodBuild for TLC: pods with volumes of every kind, in an    *)
(* order CreatePodVolumes gets through and in one it does not.             *)
EXTENDS PodBuild

Mount(name, path) == [name |-> name, mountPath |-> path, subPath |-> "", readOnly |-> FALSE]
Plain(name, image, policy, memory, cpu, mounts) ==
  [name |-> name, image |-> image, imagePullPolicy |-> policy, volumeMounts |-> mounts,
   env |-> <<>>, cpuRequest |-> cpu, cpuLimit |-> 2 * cpu, memoryRequest |-> memory,
   memoryLimit |-> 2 * memory, securityContext |-> None]

\* Secret last, with a nested item and a missing key; requests from nothing to more
\* than there is.
Web ==
  [uid |-> "u1", namespace |-> "default", name |-> "web", priority |-> 0,
   qosClass |-> "Burstable", runAsUser |-> "1000", runAsGroup |-> None,
   imagePullSecrets |-> <<"s1", "s2">>,
   volumes |-> <<[kind |-> "hostPath", name |-> "logs", path |-> "/var/log"],
                 [kind |-> "emptyDir", name |-> "tmp"],
                 [kind |-> "secret", name |-> "conf", secretName |-> "s1", optional |-> FALSE,
                  items |-> {[key |-> "a", path |-> <<"etc", "app", "a">>],
                             [key |-> "b", path |-> <<"b">>]}]>>,
   containers |->
     <<Plain("app", "private", "IfNotPresent", 3, 1,
             <<Mount("tmp", "/tmp"), Mount("conf", "/conf"), Mount("logs", "/logs")>>),
       [Plain("log", "public", "Always", 12, 250, <<Mount("tmp", "/shared"), Mount("gone", "/x")>>)
          EXCEPT !.env = <<[name |-> "A", value |-> "1", valueFrom |-> FALSE],
                           [name |-> "B", value |-> "", valueFrom |-> TRUE]>>,
                 !.securityContext = [privileged |-> FALSE, runAsUser |-> None, runAsGroup |-> None,
                   allowPrivilegeEscalation |-> FALSE, readOnlyRootFilesystem |-> TRUE]]>>]

\* A projected volume first: the directory and the optional secret come too late.
Job ==
  [Web EXCEPT
     !.uid = "u2", !.name = "job", !.priority = 2000000000,
     !.imagePullSecrets = <<"s2">>,
     !.volumes = <<[kind |-> "configMap", name |-> "map"],
                   [kind |-> "memoryDir", name |-> "mem"],
                   [kind |-> "projected", name |-> "sa",
                    tokens |-> {[key |-> "t", path |-> <<"x", "token">>]}],
                   [kind |-> "emptyDir", name |-> "late"],
                   [kind |-> "secret", name |-> "opt", secretName |-> "s1", optional |-> TRUE,
                    items |-> None]>>,
     !.containers = <<Plain("app", "private", "Always", 0, 1500,
        <<Mount("sa", "/sa"), Mount("late", "/late"), Mount("mem", "/m"), Mount("map", "/c")>>)>>]

\* An optional secret with all its keys; the image must be there.
Cron ==
  [Web EXCEPT
     !.uid = "u3", !.name = "cron", !.imagePullSecrets = <<>>,
     !.volumes = <<[kind |-> "secret", name |-> "opt", secretName |-> "s1", optional |-> TRUE,
                    items |-> None]>>,
     !.containers = <<Plain("app", "public", "Never", 8, 0, <<Mount("opt", "/opt")>>),
                      Plain("two", "public", "IfNotPresent", 4, 5, <<Mount("opt", "/o")>>)>>]

\* Nothing but directories, and no image that needs credentials.
Bare ==
  [Cron EXCEPT
     !.uid = "u4", !.name = "bare",
     !.volumes = <<[kind |-> "emptyDir", name |-> "one"], [kind |-> "memoryDir", name |-> "mem"],
                   [kind |-> "emptyDir", name |-> "two"]>>,
     !.containers = <<Plain("app", "public", "IfNotPresent", 1, 100,
                            <<Mount("one", "/one"), Mount("two", "/two")>>)>>]

AllPods == {Web, Job, Cron, Bare}

States ==
  {[type |-> "Opaque", data |-> [a |-> "a1"], opens |-> {}],
   [type |-> "Opaque", data |-> [a |-> "a2", b |-> "b2"], opens |-> {}],
   [type |-> "dockerconfigjson", data |-> [auths |-> "broken"], opens |-> None],
   [type |-> "dockerconfigjson", data |-> [auths |-> "other"], opens |-> {}],
   [type |-> "dockerconfigjson", data |-> [auths |-> "right"], opens |-> {"private"}]}
=============================================================================
