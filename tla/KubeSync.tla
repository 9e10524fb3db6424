------------------------------ MODULE KubeSync ------------------------------
(***************************************************************************)
(* ctrmgrd (ctrmgrd.py, kube_commands.py): the node joins the Kubernetes   *)
(* master that CONFIG_DB names, leaves it when it is disabled, retries a   *)
(* join that failed, and copies the node labels of STATE_DB to the API     *)
(* server of the master, with retries of its own.                          *)
(*                                                                         *)
(* The daemon has one thread: a handler or a timer is one step, during     *)
(* which the databases and the masters may change only as far as health    *)
(* says.  Left out: ports, certificates and the lock file (ctrmgrd is the  *)
(* only caller of kube_commands here), and the feature transitions.        *)
(***************************************************************************)
EXTENDS Naturals

CONSTANTS
  Servers,   \* addresses of masters
  None,      \* no address
  Labels,    \* names of node labels
  NodeLabel, \* the ones set_node_labels writes, as one
  Values,    \* values of labels
  Absent,    \* no value
  Configs,   \* rows of KUBERNETES_MASTER an operator writes
  Healths    \* what the health of each master can be

Config   == [ip : Servers \cup {None}, disable : BOOLEAN]
NoConfig == [ip |-> None, disable |-> FALSE]  \* dflt_cfg_ser: no row
Wanted(c) == c.ip # None /\ ~c.disable

Label == [Labels -> Values \cup {Absent}]
Bare  == [l \in Labels |-> Absent]

ASSUME NoneAssumption == None \notin Servers
ASSUME AbsentAssumption == Absent \notin Values
ASSUME NodeLabelAssumption == NodeLabel \in Labels /\ Values # {}
ASSUME ConfigsAssumption == Configs \subseteq Config
ASSUME HealthsAssumption == Healths \in [Servers -> SUBSET {"down", "half", "up"}]

VARIABLES
  cfg,              \* CONFIG_DB KUBERNETES_MASTER|SERVER
  db,               \* STATE_DB KUBE_LABELS|SET
  row,              \* STATE_DB KUBERNETES_MASTER|SERVER, as st_server has it
  cfgN, dbN,        \* notifications that wait, of cfg and of db
  health,           \* of each master: "down", "half" (only what is asked of
                    \* it first succeeds) or "up"
  registered,       \* masters that have a node object of this node,
  node,             \* and its labels there
  conf,             \* master in KUBE_ADMIN_CONF; None, no such file
  member,           \* the kubelet is configured (KUBELET_YAML)
  up,               \* ctrmgrd runs
  cfg_server,       \* RemoteServerHandler
  pending, joins,   \* its pending flag, and its timers that are registered
  remote_connected, \* the global
  set_labels,       \* LabelsPendingHandler
  lpending, writes  \* its pending flag, and its timers that are registered

masters == <<registered, node, conf, member>>
labels  == <<set_labels, lpending, writes>>
remote  == <<cfg_server, pending, joins, remote_connected, row>>
vars    == <<cfg, db, cfgN, dbN, health, up, masters, labels, remote>>

NoServerRow == [connected |-> "", ip |-> None]

Init ==
  /\ cfg \in Configs /\ db = Bare /\ row = NoServerRow
  /\ cfgN = FALSE /\ dbN = FALSE
  /\ health = [s \in Servers |-> "down"]
  /\ registered = {} /\ node = [s \in Servers |-> Bare]
  /\ conf = None /\ member = FALSE
  /\ up = FALSE /\ cfg_server = NoConfig
  /\ pending = FALSE /\ joins = 0 /\ remote_connected = FALSE
  /\ set_labels = Bare /\ lpending = FALSE /\ writes = 0

(***************************************************************************)
(* The operator, the writers of labels, and the masters                    *)
(***************************************************************************)
SetConfig(c) ==
  /\ cfg # c
  /\ cfg' = c /\ cfgN' = up
  /\ UNCHANGED <<db, dbN, health, up, masters, labels, remote>>

\* set_label and drop_label of the container scripts, and the feature handler.
SetLabel(l, v) ==
  /\ db[l] # v
  /\ db' = [db EXCEPT ![l] = v] /\ dbN' = up
  /\ UNCHANGED <<cfg, cfgN, health, up, masters, labels, remote>>

SetHealth(s, h) ==
  /\ health[s] # h
  /\ health' = [health EXCEPT ![s] = h]
  /\ UNCHANGED <<cfg, db, cfgN, dbN, up, masters, labels, remote>>

(***************************************************************************)
(* kube_commands.py                                                        *)
(***************************************************************************)
is_connected(s) == member /\ conf = s

\* _do_reset: the node object is deleted at the master the file names.
kube_reset_master ==
  LET gone == IF conf # None /\ health[conf] # "down" THEN {conf} ELSE {}
  IN /\ registered' = registered \ gone
     /\ node' = [s \in Servers |-> IF s \in gone THEN Bare ELSE node[s]]
     /\ conf' = None /\ member' = FALSE

\* The file is written before the node object is deleted: at the new master,
\* not at the one the node leaves.
kube_join_master(s) ==
  IF is_connected(s) \/ health[s] = "down" THEN UNCHANGED masters
  ELSE /\ conf' = s
       /\ member' = (health[s] = "up")
       /\ registered' = IF health[s] = "up" THEN registered \cup {s}
                                            ELSE registered \ {s}
       /\ node' = [node EXCEPT ![s] = Bare]

Joins(s) == is_connected(s) \/ health[s] = "up"

\* Labels of ls that the node has with another value, or does not have.
Differ(ls) == {l \in Labels : ls[l] # Absent /\ node[conf][l] # ls[l]}

\* kubectl gives the labels of the node.
Reads == conf # None /\ conf \in registered /\ health[conf] # "down"

Writes(ls) == Differ(ls) = {} \/ health[conf] = "up"

\* Labels that differ are deleted first, then all that differ are added.
kube_write_labels(ls) ==
  node' = [s \in Servers |->
             IF s # conf THEN node[s]
             ELSE [l \in Labels |->
                     IF l \notin Differ(ls) THEN node[s][l]
                     ELSE IF health[s] = "up" THEN ls[l] ELSE Absent]]

(***************************************************************************)
(* RemoteServerHandler                                                     *)
(***************************************************************************)
do_reset ==
  /\ kube_reset_master
  /\ row' = [row EXCEPT !.connected = "false"]
  /\ remote_connected' = FALSE
  /\ UNCHANGED db

\* Mutant of do_join: a failed join leaves the connection counted as it was.
do_join_kept(s) ==
  /\ kube_join_master(s)
  /\ remote_connected' = (Joins(s) \/ remote_connected)
  /\ IF Joins(s)
     THEN /\ row' = [connected |-> "true", ip |-> s]
          /\ db' = [db EXCEPT ![NodeLabel] = CHOOSE v \in Values : TRUE]
     ELSE /\ row' = [row EXCEPT !.connected = "false"]
          /\ UNCHANGED db

\* set_node_labels writes KUBE_LABELS, which notifies the label handler.
do_join(s) ==
  /\ kube_join_master(s)
  /\ remote_connected' = Joins(s)
  /\ IF Joins(s)
     THEN /\ row' = [connected |-> "true", ip |-> s]
          /\ db' = [db EXCEPT ![NodeLabel] = CHOOSE v \in Values : TRUE]
     ELSE /\ row' = [row EXCEPT !.connected = "false"]
          /\ UNCHANGED db

\* n: timers of the handler that are left.
handle_update(c, n) ==
  LET retry == Wanted(c) /\ ~Joins(c.ip)
  IN /\ IF Wanted(c) THEN do_join(c.ip) ELSE do_reset
     /\ pending' = retry
     /\ joins' = IF retry THEN n + 1 ELSE n

\* Mutant of on_config_update: a join that is pending is not waited for.
on_config_update_at_once ==
  /\ up /\ cfgN
  /\ cfgN' = FALSE
  /\ cfg_server' = cfg
  /\ IF cfg_server = cfg
     THEN UNCHANGED <<db, dbN, pending, joins, remote_connected, row, masters>>
     ELSE /\ handle_update(cfg, joins)
          /\ dbN' = (dbN \/ remote_connected')
  /\ UNCHANGED <<cfg, health, up, labels>>

\* Mutant of on_config_update: with a join pending the change is dropped.
on_config_update_dropped ==
  /\ up /\ cfgN
  /\ cfgN' = FALSE
  /\ cfg_server' = IF pending THEN cfg_server ELSE cfg
  /\ IF cfg_server = cfg \/ pending
     THEN UNCHANGED <<db, dbN, pending, joins, remote_connected, row, masters>>
     ELSE /\ handle_update(cfg, joins)
          /\ dbN' = (dbN \/ remote_connected')
  /\ UNCHANGED <<cfg, health, up, labels>>

on_config_update ==
  /\ up /\ cfgN
  /\ cfgN' = FALSE
  /\ cfg_server' = cfg
  /\ IF cfg_server = cfg \/ pending
     THEN UNCHANGED <<db, dbN, pending, joins, remote_connected, row, masters>>
     ELSE /\ handle_update(cfg, joins)
          /\ dbN' = (dbN \/ remote_connected')
  /\ UNCHANGED <<cfg, health, up, labels>>

JoinTimer ==
  /\ up /\ joins > 0
  /\ handle_update(cfg_server, joins - 1)
  /\ dbN' = (dbN \/ remote_connected')
  /\ UNCHANGED <<cfg, cfgN, health, up, cfg_server, labels>>

(***************************************************************************)
(* LabelsPendingHandler                                                    *)
(***************************************************************************)
\* The process ends, and with it all that it has in memory.
Down ==
  /\ up' = FALSE /\ cfgN' = FALSE /\ dbN' = FALSE
  /\ cfg_server' = NoConfig /\ pending' = FALSE /\ joins' = 0
  /\ remote_connected' = FALSE
  /\ set_labels' = Bare /\ lpending' = FALSE /\ writes' = 0
  /\ UNCHANGED <<cfg, db, row, health>>

\* kube_read_labels: the exit status is that of the last command of a pipe,
\* so that a kubectl that fails looks like a node with no labels, which is
\* taken apart with an IndexError that nobody catches.
ReadFails == ~Reads /\ Down /\ UNCHANGED masters

\* Mutant of update_node_labels: a failed write is not retried.
update_node_labels_once(ls, n) ==
  /\ kube_write_labels(ls)
  /\ lpending' = ~Writes(ls)
  /\ writes' = n

\* n: timers of the handler that are left.
update_node_labels(ls, n) ==
  /\ kube_write_labels(ls)
  /\ lpending' = ~Writes(ls)
  /\ writes' = IF Writes(ls) THEN n ELSE n + 1

\* Mutant of on_update: the labels are read only when they are sent.
on_update_skipped ==
  /\ up /\ dbN /\ (remote_connected /\ ~lpending => Reads)
  /\ dbN' = FALSE
  /\ IF remote_connected /\ ~lpending
     THEN set_labels' = db /\ update_node_labels(db, writes)
     ELSE UNCHANGED <<set_labels, node, lpending, writes>>
  /\ UNCHANGED <<cfg, db, cfgN, health, up, registered, conf, member, remote>>

on_update ==
  /\ up /\ dbN
  /\ \/ remote_connected /\ ~lpending /\ ReadFails
     \/ /\ remote_connected /\ ~lpending => Reads
        /\ dbN' = FALSE
        /\ set_labels' = db
        /\ IF remote_connected /\ ~lpending THEN update_node_labels(db, writes)
           ELSE UNCHANGED <<node, lpending, writes>>
        /\ UNCHANGED <<cfg, db, cfgN, health, up, registered, conf, member, remote>>

\* Mutant of LabelTimer: it fires although none is registered.
LabelTimer_unregistered ==
  /\ up /\ Reads
  /\ update_node_labels(set_labels, writes - 1)
  /\ UNCHANGED <<cfg, db, cfgN, dbN, health, up, registered, conf, member,
                 set_labels, remote>>

LabelTimer ==
  /\ up /\ writes > 0
  /\ \/ ReadFails
     \/ /\ Reads
        /\ update_node_labels(set_labels, writes - 1)
        /\ UNCHANGED <<cfg, db, cfgN, dbN, health, up, registered, conf, member,
                       set_labels, remote>>

(***************************************************************************)
(* The process                                                             *)
(***************************************************************************)
\* main: with a row of an earlier run the join is tried at once, else after a
\* latency.  The subscriptions give the rows that exist.
Start ==
  /\ ~up
  /\ up' = TRUE /\ cfg_server' = cfg /\ cfgN' = (cfg # NoConfig)
  /\ IF row = NoServerRow
     THEN /\ pending' = TRUE /\ joins' = 1
          /\ UNCHANGED <<db, remote_connected, row, masters>>
     ELSE handle_update(cfg, 0)
  /\ dbN' = (db' # Bare)
  /\ UNCHANGED <<cfg, health, labels>>

Crash == up /\ Down /\ UNCHANGED masters

\* The process ends in a join, after kube_join_master: in that of a timer, of
\* a change of the configuration, or of its start.
CrashInJoin ==
  \E c \in {cfg, cfg_server} :
    /\ \/ up /\ joins > 0 /\ c = cfg_server
       \/ up /\ cfgN /\ ~pending /\ cfg # cfg_server /\ c = cfg
       \/ ~up /\ row # NoServerRow /\ c = cfg
    /\ Wanted(c) /\ kube_join_master(c.ip)
    /\ Down

Environment ==
  \/ \E c \in Configs : SetConfig(c)
  \/ \E l \in Labels \ {NodeLabel}, v \in Values : SetLabel(l, v)
  \/ \E s \in Servers : \E h \in Healths[s] : SetHealth(s, h)

Ctrmgrd ==
  \/ Start \/ Crash \/ CrashInJoin
  \/ on_config_update \/ JoinTimer \/ on_update \/ LabelTimer

Next == Environment \/ Ctrmgrd

\* The main loop runs the timers that are due and then pops each subscriber;
\* systemd starts the daemon again (Restart=always).
Fairness ==
  /\ WF_vars(Start) /\ WF_vars(on_config_update) /\ WF_vars(JoinTimer)
  /\ WF_vars(on_update) /\ WF_vars(LabelTimer)

Spec == Init /\ [][Next]_vars

FairSpec == Spec /\ Fairness
(***************************************************************************)
(* Properties                                                              *)
(***************************************************************************)
\* Every variable has its type.
TypeOK ==
  /\ cfg \in Config /\ cfg_server \in Config /\ db \in Label
  /\ row \in [connected : {"", "true", "false"}, ip : Servers \cup {None}]
  /\ cfgN \in BOOLEAN /\ dbN \in BOOLEAN
  /\ health \in [Servers -> {"down", "half", "up"}]
  /\ registered \subseteq Servers /\ node \in [Servers -> Label]
  /\ conf \in Servers \cup {None} /\ member \in BOOLEAN
  /\ up \in BOOLEAN /\ pending \in BOOLEAN /\ joins \in Nat
  /\ remote_connected \in BOOLEAN
  /\ set_labels \in Label /\ lpending \in BOOLEAN /\ writes \in Nat

\* Each handler has one timer registered exactly while its pending flag is
\* set: a change that is put off because of the flag is taken up by a timer,
\* and retries never multiply (ctrmgrd.py 340-360, 380-455, 660-683).
OneTimer ==
  /\ joins = IF pending THEN 1 ELSE 0
  /\ writes = IF lpending THEN 1 ELSE 0

\* While the daemon counts the master as connected, the node is joined to the
\* master last asked for, STATE_DB says so, which container_start relies on,
\* and no retry can undo it; else STATE_DB never says connected while the
\* daemon runs (ctrmgrd.py 393-455).
JoinedAsAsked ==
  /\ remote_connected =>
       /\ Wanted(cfg_server) /\ ~pending
       /\ is_connected(cfg_server.ip) /\ cfg_server.ip \in registered
       /\ row = [connected |-> "true", ip |-> cfg_server.ip]
  /\ up /\ ~remote_connected => row.connected # "true"

InSync == \A l \in Labels : db[l] # Absent => node[conf][l] = db[l]

\* No label is lost: while connected, with no notification and no retry
\* outstanding, the API server has every label of STATE_DB, although changes
\* made while disconnected, while a retry was pending or while the daemon was
\* down are not sent when they happen, a write can fail after it has deleted
\* labels, and a join starts from a node with none (ctrmgrd.py 429-441,
\* 647-683, kube_commands.py 107-148).
NoLabelLost == remote_connected /\ ~lpending /\ ~dbN => InSync

\* From some time on the daemon ends only because of labels it cannot read.
Steady == <>[][up /\ ~up' => on_update \/ LabelTimer]_vars

\* When one master stays configured and healthy, the node is joined to it and
\* its labels are brought in line, again after every change and after the
\* exits of the daemon over labels it cannot read.
Delivered ==
  \A s \in Servers :
    Steady /\ <>[](Wanted(cfg) /\ cfg.ip = s /\ health[s] = "up")
      => []<>(remote_connected /\ conf = s /\ InSync)

\* When no master stays wanted, the node leaves and stays out, also when the
\* retry of a label that is still registered ends the daemon.
LeavesWhenDisabled == Steady /\ <>[]~Wanted(cfg) => <>[](conf = None /\ ~member)
=============================================================================
