------------------------------- MODULE Broker -------------------------------
(***************************************************************************)
(* The broker application, the supervisor of all other parts of the        *)
(* broker.  It shares its points of parallelism among the importers it     *)
(* starts and keeps the imports that have to wait; it adds, removes and    *)
(* restarts its MQTT clients and records them in the configuration; and it *)
(* winds everything down when it is asked to, when a child gives up, or to *)
(* be restarted when the database has failed and is back.                  *)
(*                                                                         *)
(* A child is known by what the broker has heard of it: its events are     *)
(* handled when they are sent, and that it is stopping and has stopped is  *)
(* one event.  The children of one kind that are started together and stop *)
(* together are one here (core).  The launcher and the peer of a socket    *)
(* give up their handle of the broker with the broker's own, and when the  *)
(* socket closes.                                                          *)
(***************************************************************************)
EXTENDS Integers, FiniteSets, SequencesExt

CONSTANTS
  Files,         \* the paths of files
  Unprintable,   \* those that are no UTF-8
  Dirs,          \* Dirs[path]: the files of a directory, a sequence
  NoPath,        \* a path that is neither
  Parallelism,   \* parallelism
  Urls,          \* the MQTT clients, topic@url
  MaxImports,    \* bound on the imports asked for
  MaxAdds        \* bound on the MQTT clients added by hand

Core == {"solidifier", "collector", "syncer", "archiver"}
Paths == Files \cup DOMAIN Dirs \cup {NoPath}

ASSUME BrokerAssumption ==
  /\ Unprintable \subseteq Files
  /\ \A d \in DOMAIN Dirs : Dirs[d] \in Seq(Files) /\ IsInjective(Dirs[d])
  /\ NoPath \notin Files \cup DOMAIN Dirs /\ Files \cap DOMAIN Dirs = {}
  /\ Parallelism \in 1..255 /\ MaxImports \in Nat /\ MaxAdds \in Nat

VARIABLES
  service,     \* "Running", "Stopping" or "Ended"
  status,      \* what the event loop returns: "Ok", "Abort" or "Restart"
  handle,      \* whether the broker has its own handle still
  core,        \* the children started with the broker that are alive
  imports,     \* the importers and what is known of them
  asks,        \* how often each bounded request has been made
  mqtt,        \* of each MQTT client: "none", "starting", "up" or "leaving"
  mqtts,       \* the clients with a microservice
  mqttHandles, \* mqtt_handles: those with a handle, "live" or of a client that is gone
  askedToShutdown, \* asked_to_shutdown
  config,      \* mqtt_brokers of the latest record of the history
  newSecond,   \* whether the clock has moved since that record
  overwritten, \* whether two records have been made in the same second
  socket       \* a websocket: "none", "starting", "open" or "closing"
mqttVars == <<mqtt, mqtts, mqttHandles, askedToShutdown, config, overwritten>>
vars == <<service, status, handle, core, imports, asks, mqttVars, newSecond, socket>>

Running == service = "Running"

-----------------------------------------------------------------------------
(* Importers. *)

\* points    parallelism_points, a u8
\* alive     the importers that run, and the parallelism of each
\* progress  in_progress_importers
\* pending   pending_imports
\* handles   importer_handles
\* errors    the path errors the sockets were told of
NoImports == [points |-> Parallelism, alive |-> <<>>, progress |-> 0, pending |-> <<>>,
              handles |-> {}, errors |-> {}]

With(f, x, v) == [y \in DOMAIN f \cup {x} |-> IF y = x THEN v ELSE f[y]]
WithoutKey(f, x) == [y \in DOMAIN f \ {x} |-> f[y]]
PathError(s, e) == [s EXCEPT !.errors = @ \cup {e}]

\* Mutant: the points are taken although the file is being imported already.
SpawnTwice(s, fs, p) ==
  LET bad == fs \cap Unprintable
      new == fs \ Unprintable
  IN  [s EXCEPT !.alive = [f \in DOMAIN @ \cup new |-> IF f \in new THEN p ELSE @[f]],
                !.handles = @ \cup new, !.progress = @ + Cardinality(new),
                !.points = (@ + p * Cardinality(bad) - p * Cardinality(new)) % 256,
                !.errors = IF bad = {} THEN @ ELSE @ \cup {"Unconvertible"}]

\* spawn_importer, build_and_start_importer, of each of the files fs with p points.
\* Their order is immaterial: they are different files, and the points a u8.
spawn_importer(s, fs, p) ==
  LET bad == fs \cap Unprintable
      new == fs \ (Unprintable \cup DOMAIN s.alive)
  IN  [s EXCEPT !.alive = [f \in DOMAIN @ \cup new |-> IF f \in new THEN p ELSE @[f]],
                !.handles = @ \cup new, !.progress = @ + Cardinality(new),
                !.points = (@ + p * Cardinality(bad) - p * Cardinality(new)) % 256,
                !.errors = IF bad = {} THEN @ ELSE @ \cup {"Unconvertible"}]

\* The points are shared among the files of a directory, or the files take turns.
spawn_importers(s, files) ==
  IF files = <<>> THEN PathError(s, "NoLogFiles")
  ELSE IF s.points > Len(files) THEN spawn_importer(s, ToSet(files), s.points \div Len(files))
  ELSE LET t == spawn_importer(s, {Last(files)}, s.points)
       IN  [t EXCEPT !.pending = @ \o Front(files)]

\* An import waits when every point is taken.
handle_import(s, path) ==
  IF ~Running THEN s
  ELSE IF s.points = 0 THEN [s EXCEPT !.pending = Append(@, path)]
  ELSE IF path \in Files THEN spawn_importer(s, {path}, s.points)
  ELSE IF path \in DOMAIN Dirs THEN spawn_importers(s, Dirs[path])
  ELSE PathError(s, "InvalidPath")

\* Topology, Import
Import(path) ==
  /\ Running /\ asks.imports < MaxImports
  /\ asks' = [asks EXCEPT !.imports = @ + 1]
  /\ imports' = handle_import(imports, path)
  /\ UNCHANGED <<service, status, handle, core, mqttVars, newSecond, socket>>

\* Importer, is_stopped: its points are returned, the last pending import is tried,
\* and the handle with its name is removed, be it of a new importer of that name.
ImporterStopped(f) ==
  /\ f \in DOMAIN imports.alive
  /\ LET freed == [imports EXCEPT !.progress = @ - 1, !.alive = WithoutKey(@, f),
                                  !.points = (@ + imports.alive[f]) % 256]
         next == IF freed.pending = <<>> THEN freed
                 ELSE handle_import([freed EXCEPT !.pending = Front(@)], Last(freed.pending))
     IN  imports' = [next EXCEPT !.handles = @ \ {f}]
  /\ UNCHANGED <<service, status, handle, core, asks, mqttVars, newSecond, socket>>

-----------------------------------------------------------------------------
(* MQTT clients. *)

\* Mutant: the configuration is not updated.
HistoryNotUpdated(c) == UNCHANGED <<config, newSecond, overwritten>>

\* get_history_mut().update: of two records of one second the first stays the latest.
UpdateHistory(c) ==
  /\ config' = IF newSecond THEN c ELSE config
  /\ newSecond' = (newSecond /\ c = config)
  /\ overwritten' = (overwritten \/ (~newSecond /\ c # config))

\* The clock moves.
Tick == /\ ~newSecond /\ newSecond' = TRUE
        /\ UNCHANGED <<service, status, handle, core, imports, asks, mqttVars, socket>>

\* add_mqtt of a client without microservice
add_mqtt(u) ==
  /\ mqtt' = [mqtt EXCEPT ![u] = "starting"] /\ mqtts' = mqtts \cup {u}
  /\ UpdateHistory(config \cup {u})

\* Topology, AddMqttMessages and AddMqttMessagesReferenced
AddMqtt(u) ==
  /\ Running /\ asks.adds < MaxAdds /\ u \notin mqtts
  /\ asks' = [asks EXCEPT !.adds = @ + 1]
  /\ add_mqtt(u)
  /\ UNCHANGED <<service, status, handle, core, imports, mqttHandles, askedToShutdown, socket>>

\* remove_mqtt; a client that is starting comes up all the same.
RemoveMqtt(u) ==
  /\ Running /\ u \in mqtts
  /\ askedToShutdown' = askedToShutdown \cup {u}
  /\ IF u \in DOMAIN mqttHandles
     THEN /\ mqtt' = IF mqttHandles[u] = "live" THEN [mqtt EXCEPT ![u] = "leaving"] ELSE mqtt
          /\ mqttHandles' = WithoutKey(mqttHandles, u)
          /\ UpdateHistory(config \ {u})
     ELSE UNCHANGED <<mqtt, mqttHandles, config, newSecond, overwritten>>
  /\ UNCHANGED <<service, status, handle, core, imports, asks, mqtts, socket>>

\* Mutant: a client that was to be removed while it started is ignored.
MqttUpUnlessAsked(u) ==
  /\ mqtt[u] = "starting"
  /\ mqtt' = [mqtt EXCEPT ![u] = IF Running THEN "up" ELSE "leaving"]
  /\ mqttHandles' = IF Running /\ u \notin askedToShutdown THEN With(mqttHandles, u, "live")
                    ELSE mqttHandles
  /\ UNCHANGED <<service, status, handle, core, imports, asks, mqtts, askedToShutdown, config,
                 newSecond, overwritten, socket>>

\* Mutant: a client that comes up while the broker stops is not told to leave.
MqttUpNotTold(u) ==
  /\ mqtt[u] = "starting"
  /\ mqtt' = [mqtt EXCEPT ![u] = "up"]
  /\ mqttHandles' = IF Running THEN With(mqttHandles, u, "live") ELSE mqttHandles
  /\ UNCHANGED <<service, status, handle, core, imports, asks, mqtts, askedToShutdown, config,
                 newSecond, overwritten, socket>>

\* The client is connected; with the broker stopping it is told to leave.
MqttUp(u) ==
  /\ mqtt[u] = "starting"
  /\ mqtt' = [mqtt EXCEPT ![u] = IF Running THEN "up" ELSE "leaving"]
  /\ mqttHandles' = IF Running THEN With(mqttHandles, u, "live") ELSE mqttHandles
  /\ UNCHANGED <<service, status, handle, core, imports, asks, mqtts, askedToShutdown, config,
                 newSecond, overwritten, socket>>

\* The handle of a client that is gone stays where it is.
Stale(u) == IF u \in DOMAIN mqttHandles THEN With(mqttHandles, u, "stale") ELSE mqttHandles

\* It cannot connect, or has lost its connection: it is restarted unless it was asked to leave.
MqttLost(u) ==
  /\ mqtt[u] # "none"
  /\ mqttHandles' = Stale(u)
  /\ \/ Running /\ u \notin askedToShutdown /\ add_mqtt(u) /\ UNCHANGED askedToShutdown
     \/ /\ u \in askedToShutdown
        /\ mqtt' = [mqtt EXCEPT ![u] = "none"] /\ mqtts' = mqtts \ {u}
        /\ askedToShutdown' = askedToShutdown \ {u} /\ UNCHANGED <<config, newSecond, overwritten>>
     \/ /\ ~Running /\ u \notin askedToShutdown
        /\ mqtt' = [mqtt EXCEPT ![u] = "none"]
        /\ UNCHANGED <<mqtts, askedToShutdown, config, newSecond, overwritten>>
  /\ UNCHANGED <<service, status, handle, core, imports, asks, socket>>

\* Its stream has ended: the microservice stays, stopped.
MqttStopped(u) ==
  /\ mqtt[u] \in {"up", "leaving"}
  /\ mqtt' = [mqtt EXCEPT ![u] = "none"] /\ mqttHandles' = Stale(u)
  /\ UNCHANGED <<service, status, handle, core, imports, asks, mqtts, askedToShutdown, config,
                 newSecond, overwritten, socket>>

\* Its url is no good.
MqttAborted(u) ==
  /\ mqtt[u] = "starting"
  /\ mqtt' = [mqtt EXCEPT ![u] = "none"] /\ mqtts' = mqtts \ {u}
  /\ UNCHANGED <<service, status, handle, core, imports, asks, mqttHandles, askedToShutdown,
                 config, newSecond, overwritten, socket>>

-----------------------------------------------------------------------------
(* The service. *)

Init ==
  /\ service = "Running" /\ status = "Ok" /\ handle = TRUE /\ core = Core
  /\ imports = NoImports /\ asks = [imports |-> 0, adds |-> 0]
  /\ config \in SUBSET Urls /\ newSecond = TRUE /\ overwritten = FALSE
  /\ mqtt = [u \in Urls |-> IF u \in config THEN "starting" ELSE "none"]
  /\ mqtts = config /\ mqttHandles = <<>> /\ askedToShutdown = {}
  /\ socket = "none"

\* shutdown
shutdown(drop) ==
  IF ~Running THEN UNCHANGED <<service, handle, mqtt, mqttHandles, imports, socket>>
  ELSE /\ service' = "Stopping"
       /\ mqtt' = [u \in Urls |-> IF mqtt[u] = "up" THEN "leaving" ELSE mqtt[u]]
       /\ mqttHandles' = <<>>
       /\ imports' = [imports EXCEPT !.handles = {}]
       /\ socket' = IF socket = "open" THEN "closing" ELSE socket
       /\ handle' = (handle /\ ~drop)

\* Shutdown, by the launcher, a socket or another application
Shutdown ==
  /\ service \in {"Running", "Stopping"} /\ handle
  /\ IF Running THEN shutdown(TRUE)
     ELSE handle' = FALSE /\ UNCHANGED <<service, mqtt, mqttHandles, imports, socket>>
  /\ UNCHANGED <<status, core, asks, mqtts, askedToShutdown, config, newSecond, overwritten>>

\* Children, Solidifier that aborted: the database has failed, the broker waits for it.
SolidifierAborted ==
  /\ "solidifier" \in core /\ core' = core \ {"solidifier"}
  /\ shutdown(FALSE) /\ status' = "Restart"
  /\ UNCHANGED <<asks, mqtts, askedToShutdown, config, newSecond, overwritten>>

\* Children, Syncer or Archiver that aborted
ChildAborted(c) ==
  /\ c \in core /\ core' = core \ {c}
  /\ IF status = "Restart"
     THEN UNCHANGED <<service, status, handle, mqtt, mqttHandles, imports, socket>>
     ELSE shutdown(TRUE) /\ status' = "Abort"
  /\ UNCHANGED <<asks, mqtts, askedToShutdown, config, newSecond, overwritten>>

\* The children stop when they are told; the archiver when its handles are gone.
ChildStopped(c) ==
  /\ ~Running /\ c \in core
  /\ c = "archiver" => core \cap {"solidifier", "syncer"} = {}
  /\ core' = core \ {c}
  /\ UNCHANGED <<service, status, handle, imports, asks, mqttVars, newSecond, socket>>

\* Scylla runs again.
ScyllaRuns ==
  /\ service = "Stopping" /\ status = "Restart"
  /\ service' = "Ended" /\ handle' = FALSE
  /\ UNCHANGED <<status, core, imports, asks, mqttVars, newSecond, socket>>

\* A websocket connects, is told to the broker, is closed.
SocketConnects ==
  /\ Running /\ socket = "none" /\ socket' = "starting"
  /\ UNCHANGED <<service, status, handle, core, imports, asks, mqttVars, newSecond>>
SocketOpens ==
  /\ socket = "starting" /\ socket' = "open"
  /\ UNCHANGED <<service, status, handle, core, imports, asks, mqttVars, newSecond>>
SocketCloses ==
  /\ socket \in {"open", "closing"} /\ socket' = "none"
  /\ UNCHANGED <<service, status, handle, core, imports, asks, mqttVars, newSecond>>

Alone == /\ core = {} /\ imports.alive = <<>> /\ socket = "none"
         /\ \A u \in Urls : mqtt[u] = "none"

\* Nobody holds a handle any more: the inbox ends.
InboxClosed ==
  /\ service = "Stopping" /\ ~handle /\ Alone
  /\ service' = "Ended"
  /\ UNCHANGED <<status, handle, core, imports, asks, mqttVars, newSecond, socket>>

Topology == \/ \E p \in Paths : Import(p)
            \/ \E u \in Urls : AddMqtt(u) \/ RemoveMqtt(u)

\* What a child does by itself, and what it does when told.
Children == \/ \E f \in Files : ImporterStopped(f)
            \/ \E u \in Urls : MqttUp(u) \/ MqttLost(u) \/ MqttStopped(u) \/ MqttAborted(u)
            \/ \E c \in Core : ChildStopped(c)
            \/ SocketOpens \/ SocketCloses

Next == \/ service # "Ended" /\ (Topology \/ Children \/ SocketConnects \/ Tick)
        \/ service # "Ended" /\ (SolidifierAborted \/ ChildAborted("syncer") \/ ChildAborted("archiver"))
        \/ Shutdown \/ ScyllaRuns \/ InboxClosed

\* While the broker stops its children do what they are told: importers end, a
\* client comes up or disconnects, and the peer of a socket goes away.
Told == \/ \E f \in Files : ImporterStopped(f)
        \/ \E u \in Urls : MqttUp(u) \/ (mqtt[u] = "leaving" /\ MqttStopped(u))
        \/ \E c \in Core : ChildStopped(c)
        \/ SocketOpens \/ SocketCloses
WindDown == service = "Stopping" /\ (Told \/ InboxClosed)

Spec == Init /\ [][Next]_vars /\ WF_vars(WindDown)

-----------------------------------------------------------------------------
(* Properties. *)

\* What the broker may know of the importers alive.
Importers(alive) ==
  [points : 0..255, alive : {alive}, progress : Nat, pending : Seq(Paths), handles : SUBSET Files,
   errors : SUBSET {"Unconvertible", "NoLogFiles", "InvalidPath"}]

\* Every variable has its type.
TypeOK ==
  /\ service \in {"Running", "Stopping", "Ended"}
  /\ status \in {"Ok", "Abort", "Restart"}
  /\ handle \in BOOLEAN
  /\ core \subseteq Core
  /\ imports \in Importers(imports.alive)
  /\ DOMAIN imports.alive \subseteq Files
  /\ imports.alive \in [DOMAIN imports.alive -> 1..255]
  /\ asks \in [imports : Nat, adds : Nat]
  /\ mqtt \in [Urls -> {"none", "starting", "up", "leaving"}]
  /\ mqtts \subseteq Urls
  /\ mqttHandles \in UNION {[S -> {"live", "stale"}] : S \in SUBSET Urls}
  /\ askedToShutdown \subseteq Urls
  /\ config \subseteq Urls
  /\ newSecond \in BOOLEAN
  /\ overwritten \in BOOLEAN
  /\ socket \in {"none", "starting", "open", "closing"}

\* The points the importers have, each importer's own.
PointsInUse(alive) == UNION {{f} \X (1 .. alive[f]) : f \in DOMAIN alive}

\* The importers in progress are those that run.  They never use more points than
\* there are, and none is lost, as long as every path can be printed:
\* event_loop.rs:439 adds points that were not taken.
PointsExact ==
  /\ IsFiniteSet(DOMAIN imports.alive)
  /\ imports.progress = Cardinality(DOMAIN imports.alive)
  /\ "Unconvertible" \notin imports.errors =>
       imports.points + Cardinality(PointsInUse(imports.alive)) = Parallelism

\* An import that waits has an importer to wait for.  Only a wrong path can
\* leave it behind: popped in its place, it starts nothing (event_loop.rs:131).
PendingHasImporter ==
  (Running /\ imports.pending # <<>>) => imports.progress > 0 \/ imports.errors # {}

\* A client that is connected can be told to leave: whatever came first, its
\* start, its loss, its restart or its removal.
MqttReachable ==
  Running => \A u \in Urls : mqtt[u] = "up" => u \in DOMAIN mqttHandles /\ mqttHandles[u] = "live"

\* What the broker keeps of its children is true: the points, the importers in
\* progress and the imports that wait agree, and so do clients and handles.
BrokerInv == TypeOK /\ PointsExact /\ PendingHasImporter /\ MqttReachable

\* A client in use that nobody asked to remove is in the configuration, and
\* will be there after a restart, unless the record of it came in the same second
\* as another one.
InUseIsConfigured ==
  ~overwritten =>
    \A u \in Urls : (mqtt[u] \in {"starting", "up"} /\ u \notin askedToShutdown) => u \in config

\* A broker that is asked to shut down ends, whatever is starting, restarting or
\* waiting at that moment.
EndsWhenAsked == (service = "Stopping" /\ ~handle) ~> (service = "Ended")

=============================================================================
