--------------------------- MODULE StandaloneDeploy ---------------------------
(***************************************************************************)
(* The recipes that standalone-deploy.ts writes beside a standalone        *)
(* binary, as they are carried out: deploy-vps.sh with systemd, a Docker   *)
(* container that is replaced, and deploy-fly.sh.  A deployment may break  *)
(* off anywhere, and the host may be restarted.                            *)
(*                                                                         *)
(* There is one deployment at a time.  (Two runs of deploy-vps.sh share    *)
(* /tmp/<name> and /opt/<name>/<name>.new, and nothing keeps one from      *)
(* installing what the other is still copying.)                            *)
(***************************************************************************)
EXTENDS Naturals, Sequences

CONSTANTS
  Client,      \* connections
  Needs,       \* seconds that a request may take from a SIGTERM on
  MaxVersion   \* bound: builds

ASSUME DeployBounds == Needs \subseteq Nat /\ MaxVersion \in Nat

\* Seconds that the binary drains at most, and that it is given (docker stop
\* gives ten); where it listens and is reached; where it keeps its data and what
\* outlives it.
Docker == [drain |-> 8, stop |-> 10, port |-> 8080, reached |-> 8080, data |-> "/data", kept |-> "/data"]

Systemd == [drain |-> 20, stop |-> 30, port |-> 8080, reached |-> 8080,
            data |-> "/var/lib", kept |-> "/var/lib"]

Fly == [drain |-> 8, stop |-> 10, port |-> 8080, reached |-> 8080, data |-> "/data", kept |-> "/data"]

Recipes == {Systemd, Docker, Fly}

VARIABLES
  recipe,    \* the recipe that is used
  newest,    \* versions built
  folder,    \* <binary>.deploy/<name>: <<version, "part" or "whole">>
  step,      \* where build or script is
  copied,    \* /tmp/<name> on the host
  besides,    \* /opt/<name>/<name>.new
  program,   \* /opt/<name>/<name>, or the image of the container
  enabled,   \* the socket unit, which is then open after a boot
  open,      \* whether systemd holds the socket
  service,   \* "off", "running", "draining", "failed"
  image,     \* the program that runs
  waited,     \* seconds since the SIGTERM
  client,    \* "new", "queued", "served", "answered", "reset", "lost"
  left,      \* seconds that the request needs, from a SIGTERM on, while it matters
  stored,    \* clients whose data are on disk
  deployed   \* the version of the last deployment that ended well

fileVars == <<folder, copied, besides, program>>
runVars == <<service, image, waited>>
clientVars == <<client, left, stored>>
standaloneVars ==
  <<recipe, newest, step, enabled, open, deployed, fileVars, runVars, clientVars>>

Vps == recipe = Systemd
NoFile == <<0, "none">>

StandaloneInit ==
  /\ recipe \in Recipes
  /\ newest = 0 /\ step = "idle" /\ deployed = 0
  /\ folder = NoFile /\ copied = NoFile /\ besides = NoFile /\ program = NoFile
  /\ enabled = FALSE /\ open = FALSE
  /\ service = "off" /\ image = NoFile /\ waited = 0
  /\ client = [c \in Client |-> "new"]
  /\ left = [c \in Client |-> 0]
  /\ stored = {}

-----------------------------------------------------------------------------
\* The build has its binary and copies it into the folder.
WriteDeployFiles ==
  /\ step = "idle" /\ newest < MaxVersion
  /\ newest' = newest + 1
  /\ folder' = <<newest + 1, "part">> /\ step' = "writing"
  /\ UNCHANGED <<recipe, copied, besides, program, enabled, open, deployed, runVars, clientVars>>

FilesWritten ==
  /\ step = "writing"
  /\ folder' = <<folder[1], "whole">> /\ step' = "idle"
  /\ UNCHANGED <<recipe, newest, copied, besides, program, enabled, open, deployed, runVars, clientVars>>

\* scp, after a build that ended well.
Scp ==
  /\ step = "idle" /\ Vps /\ folder[2] = "whole"
  /\ copied' = <<folder[1], "part">> /\ step' = "copying"
  /\ UNCHANGED <<recipe, newest, folder, besides, program, enabled, open, deployed, runVars, clientVars>>

ScpEnds ==
  /\ step = "copying"
  /\ copied' = folder /\ step' = "install"
  /\ UNCHANGED <<recipe, newest, folder, besides, program, enabled, open, deployed, runVars, clientVars>>

\* Mutant: the binary is installed where it runs.
InstallInPlace ==
  /\ step = "install"
  /\ program' = <<copied[1], "part">> /\ besides' = <<copied[1], "part">> /\ step' = "installing"
  /\ UNCHANGED <<recipe, newest, folder, copied, enabled, open, deployed, runVars, clientVars>>

Install ==
  /\ step = "install"
  /\ besides' = <<copied[1], "part">> /\ step' = "installing"
  /\ UNCHANGED <<recipe, newest, folder, copied, program, enabled, open, deployed, runVars, clientVars>>

Installed ==
  /\ step = "installing"
  /\ besides' = copied /\ step' = "move"
  /\ UNCHANGED <<recipe, newest, folder, copied, program, enabled, open, deployed, runVars, clientVars>>

\* The units' text is the same in every version.
Move ==
  /\ step = "move"
  /\ program' = besides /\ besides' = NoFile /\ copied' = NoFile /\ step' = "enable"
  /\ UNCHANGED <<recipe, newest, folder, enabled, open, deployed, runVars, clientVars>>

EnableSocket ==
  /\ step = "enable"
  /\ enabled' = TRUE /\ open' = TRUE /\ step' = "restart"
  /\ UNCHANGED <<recipe, newest, fileVars, deployed, runVars, clientVars>>

\* SIGTERM, if there is something to stop.
Terminate ==
  /\ service' = IF service \in {"running", "draining"} THEN "draining" ELSE "off"
  /\ waited' = IF service = "running" THEN 0 ELSE waited
  /\ UNCHANGED image

Restart ==
  /\ step = "restart" /\ Terminate /\ step' = "restarting"
  /\ UNCHANGED <<recipe, newest, fileVars, enabled, open, deployed, clientVars>>

\* docker build and run, fly deploy.
Ship ==
  /\ step = "idle" /\ ~Vps /\ folder[2] = "whole"
  /\ program' = folder /\ Terminate /\ step' = "restarting"
  /\ UNCHANGED <<recipe, newest, folder, copied, besides, enabled, open, deployed, clientVars>>

\* The build is killed, the network is gone, or a command fails (set -e); a
\* restart that systemd has been asked for goes on.
BreakOff ==
  /\ step # "idle" /\ ~(Vps /\ step = "restarting")
  /\ step' = "idle"
  /\ UNCHANGED <<recipe, newest, fileVars, enabled, open, deployed, runVars, clientVars>>

-----------------------------------------------------------------------------
(* The host.                                                               *)

\* Started by the script, for a connection that waits, or after a failure; the
\* data of a directory that is not kept are gone.
Start ==
  /\ service \in {"off", "failed"} /\ program # NoFile
  /\ \/ step = "restarting"
     \/ Vps /\ open /\ \E c \in Client : client[c] = "queued"
     \/ service = "failed" /\ recipe # Docker
  /\ service' = "running" /\ image' = program
  /\ step' = IF step = "restarting" THEN "idle" ELSE step
  /\ deployed' = IF step = "restarting" THEN program[1] ELSE deployed
  /\ stored' = IF recipe.data = recipe.kept THEN stored ELSE {}
  /\ UNCHANGED <<recipe, newest, fileVars, enabled, open, waited, client, left>>

NoProcess == image' = NoFile /\ waited' = 0

\* Who is being served when the process ends gets `fate`; who waits in a queue
\* of systemd's stays there.
Ends(fate) ==
  client' = [c \in Client |->
    CASE client[c] = "served" -> fate
      [] client[c] = "queued" /\ ~Vps -> "lost"
      [] client[c] = "queued" /\ Vps -> "queued"
      [] client[c] \notin {"served", "queued"} -> client[c]]

\* The process leaves when it has answered, or has drained long enough; the
\* supervisor kills it when its time is over.
Drained ==
  /\ service = "draining"
  /\ \/ \A c \in Client : client[c] # "served"
     \/ waited >= recipe.drain
     \/ waited >= recipe.stop
  /\ service' = "off" /\ NoProcess /\ Ends("reset")
  /\ UNCHANGED <<recipe, newest, step, fileVars, enabled, open, deployed, left, stored>>

\* Two seconds of draining.
Tick ==
  /\ service = "draining" /\ waited < recipe.stop
  /\ waited' = waited + 2
  /\ client' = [c \in Client |->
       IF client[c] = "served" /\ left[c] <= waited + 2 THEN "answered" ELSE client[c]]
  /\ stored' = stored \cup {c \in Client : client'[c] = "answered"}
  /\ UNCHANGED <<recipe, newest, step, fileVars, enabled, open, deployed, service, image, left>>

Crash ==
  /\ service \in {"running", "draining"}
  /\ service' = "failed" /\ NoProcess /\ Ends("lost")
  /\ UNCHANGED <<recipe, newest, step, fileVars, enabled, open, deployed, left, stored>>

\* /tmp is empty after a boot.
Reboot ==
  /\ Vps /\ enabled
  /\ service' = "off" /\ NoProcess /\ copied' = NoFile
  /\ step' = IF step \in {"idle", "writing"} THEN step ELSE "idle"
  /\ client' = [c \in Client |-> IF client[c] \in {"queued", "served"} THEN "lost" ELSE client[c]]
  /\ UNCHANGED <<recipe, newest, folder, besides, program, enabled, open, deployed, left, stored>>

-----------------------------------------------------------------------------
(* Clients.                                                                *)

Connect(c) ==
  /\ client[c] = "new"
  /\ IF Vps THEN open ELSE service = "running"
  /\ recipe.port = recipe.reached
  /\ client' = [client EXCEPT ![c] = "queued"]
  /\ UNCHANGED <<recipe, newest, step, fileVars, enabled, open, deployed, runVars, left, stored>>

Accept(c) ==
  /\ client[c] = "queued" /\ service = "running"
  /\ client' = [client EXCEPT ![c] = "served"]
  /\ \E seconds \in Needs : left' = [left EXCEPT ![c] = seconds]
  /\ UNCHANGED <<recipe, newest, step, fileVars, enabled, open, deployed, runVars, stored>>

Respond(c) ==
  /\ client[c] = "served" /\ service = "running"
  /\ client' = [client EXCEPT ![c] = "answered"] /\ left' = [left EXCEPT ![c] = 0]
  /\ stored' = stored \cup {c}
  /\ UNCHANGED <<recipe, newest, step, fileVars, enabled, open, deployed, runVars>>

StandaloneNext ==
  \/ WriteDeployFiles \/ FilesWritten \/ Scp \/ ScpEnds \/ Install \/ Installed \/ Move
  \/ EnableSocket \/ Restart \/ Ship \/ BreakOff
  \/ Start \/ Drained \/ Tick \/ Crash \/ Reboot
  \/ \E c \in Client : Connect(c) \/ Accept(c) \/ Respond(c)

StandaloneSpec == StandaloneInit /\ [][StandaloneNext]_standaloneVars

-----------------------------------------------------------------------------
\* What runs is whole and no older than what was last deployed.
RunsWhole ==
  /\ service \in {"running", "draining"} => image[2] = "whole"
  /\ service = "running" => image[1] >= deployed

\* A request that was accepted, and can be answered in the time the recipe gives
\* it, is not reset by a deployment, and what an answered one stored is kept.
NoneReset ==
  \A c \in Client :
    /\ client[c] = "reset" => left[c] > recipe.drain
    /\ client[c] = "answered" => c \in stored

\* Whatever deployments break off, crashes and boots there are, a program that
\* is started is a whole one, and what was accepted is answered: deploy-vps.sh,
\* <name>.service, <name>.socket, Dockerfile, fly.toml.
DeployedServes == RunsWhole /\ NoneReset

===============================================================================
