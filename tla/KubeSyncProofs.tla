--------------------------- MODULE KubeSyncProofs ---------------------------
(***************************************************************************)
(* Theorems about KubeSync, for any masters, labels and rows.              *)
(*                                                                         *)
(* NoLabelLost is kept by a write only if what is written is what STATE_DB *)
(* holds, and by a join only if the node it is about is the one joined:    *)
(* the inductive invariant adds that the labels read last are current      *)
(* unless a notification waits, that a configured kubelet has a node       *)
(* object, and what is reset while the daemon is down.                     *)
(***************************************************************************)
EXTENDS KubeSync, TLAPS

Current == up /\ ~dbN => set_labels = db

HasNode == member => conf # None /\ conf \in registered

Reset ==
  ~up => /\ ~remote_connected /\ ~pending /\ ~lpending /\ joins = 0 /\ writes = 0
         /\ set_labels = Bare

IInv ==
  /\ TypeOK /\ OneTimer /\ JoinedAsAsked /\ NoLabelLost
  /\ Current /\ HasNode /\ Reset

LEMMA BareLabel == Bare \in Label
  BY DEF Bare, Label

LEMMA InitInv == Init => IInv
<1> SUFFICES ASSUME Init PROVE IInv OBVIOUS
<1>1. TypeOK BY BareLabel, ConfigsAssumption DEF Init, TypeOK, NoServerRow, Config, NoConfig
<1>2. OneTimer /\ NoLabelLost /\ Current /\ HasNode /\ Reset
  BY DEF Init, OneTimer, NoLabelLost, Current, HasNode, Reset
<1>3. JoinedAsAsked BY DEF Init, JoinedAsAsked
<1> QED BY <1>1, <1>2, <1>3 DEF IInv

(***************************************************************************)
(* What the calls of kube_commands do                                      *)
(***************************************************************************)
LEMMA ResetMaster ==
  ASSUME TypeOK, kube_reset_master
  PROVE  /\ registered' \subseteq Servers /\ node' \in [Servers -> Label]
         /\ conf' = None /\ member' = FALSE
  BY BareLabel DEF TypeOK, kube_reset_master

LEMMA JoinMaster ==
  ASSUME TypeOK, HasNode, NEW s \in Servers, kube_join_master(s)
  PROVE  /\ registered' \subseteq Servers /\ node' \in [Servers -> Label]
         /\ conf' \in Servers \cup {None} /\ member' \in BOOLEAN
         /\ HasNode'
         /\ Joins(s) => member' /\ conf' = s /\ s \in registered'
<1>1. CASE is_connected(s) \/ health[s] = "down"
  <2>1. UNCHANGED <<registered, node, conf, member>>
    BY <1>1 DEF kube_join_master, masters
  <2>2. Joins(s) => member /\ conf = s
    BY <1>1 DEF Joins, is_connected
  <2> QED BY <2>1, <2>2 DEF TypeOK, HasNode
<1>2. CASE ~is_connected(s) /\ health[s] # "down"
  <2>1. /\ conf' = s /\ member' = (health[s] = "up")
        /\ registered' = IF health[s] = "up" THEN registered \cup {s}
                                             ELSE registered \ {s}
        /\ node' = [node EXCEPT ![s] = Bare]
    BY <1>2 DEF kube_join_master
  <2>2. node' \in [Servers -> Label] BY <2>1, BareLabel DEF TypeOK
  <2>3. s # None BY NoneAssumption
  <2> QED BY <1>2, <2>1, <2>2, <2>3 DEF TypeOK, HasNode, Joins
<1> QED BY <1>1, <1>2

LEMMA WriteLabels ==
  ASSUME TypeOK, NEW ls \in Label, Reads, kube_write_labels(ls)
  PROVE  /\ node' \in [Servers -> Label]
         /\ Writes(ls) => \A l \in Labels : ls[l] # Absent => node'[conf][l] = ls[l]
<1>1. ASSUME NEW s \in Servers PROVE node'[s] \in Label
  <2>1. CASE s # conf
    BY <1>1, <2>1 DEF kube_write_labels, TypeOK
  <2>2. CASE s = conf
    <3>1. node'[s] = [l \in Labels |->
                        IF l \notin Differ(ls) THEN node[s][l]
                        ELSE IF health[s] = "up" THEN ls[l] ELSE Absent]
      BY <1>1, <2>2 DEF kube_write_labels
    <3>2. \A l \in Labels : node[s][l] \in Values \cup {Absent}
      <4>1. node[s] \in Label BY <1>1 DEF TypeOK
      <4> QED BY <4>1 DEF Label
    <3>3. \A l \in Labels : ls[l] \in Values \cup {Absent} BY DEF Label
    <3> QED BY <3>1, <3>2, <3>3 DEF Label
  <2> QED BY <2>1, <2>2
<1>2. node' \in [Servers -> Label] BY <1>1 DEF kube_write_labels
<1>3. ASSUME Writes(ls), NEW l \in Labels, ls[l] # Absent
      PROVE  node'[conf][l] = ls[l]
  <2>1. conf \in Servers BY DEF Reads, TypeOK
  <2>2. node'[conf][l] = IF l \notin Differ(ls) THEN node[conf][l]
                         ELSE IF health[conf] = "up" THEN ls[l] ELSE Absent
    BY <2>1 DEF kube_write_labels
  <2>3. CASE l \in Differ(ls) BY <1>3, <2>2, <2>3 DEF Writes
  <2>4. CASE l \notin Differ(ls) BY <1>3, <2>2, <2>4 DEF Differ
  <2> QED BY <2>3, <2>4
<1> QED BY <1>2, <1>3

(***************************************************************************)
(* What the handlers do                                                    *)
(***************************************************************************)
\* handle_update, with no timer of it left besides: used for the config
\* handler without a pending join, for the timer, and for the start.
LEMMA HandleUpdate ==
  ASSUME TypeOK, HasNode, NEW c \in Config, handle_update(c, 0),
         cfg_server' = c, up' = TRUE
  PROVE  /\ db' \in Label
         /\ row' \in [connected : {"", "true", "false"}, ip : Servers \cup {None}]
         /\ registered' \subseteq Servers /\ node' \in [Servers -> Label]
         /\ conf' \in Servers \cup {None} /\ member' \in BOOLEAN
         /\ pending' \in BOOLEAN /\ joins' = IF pending' THEN 1 ELSE 0
         /\ remote_connected' \in BOOLEAN
         /\ ~remote_connected' => db' = db
         /\ HasNode' /\ JoinedAsAsked'
<1>1. CASE Wanted(c)
  <2>1. /\ c.ip \in Servers /\ do_join(c.ip)
        /\ pending' = ~Joins(c.ip) /\ joins' = IF Joins(c.ip) THEN 0 ELSE 1
    BY <1>1 DEF Wanted, Config, handle_update
  <2>2. kube_join_master(c.ip) /\ remote_connected' = Joins(c.ip)
    BY <2>1 DEF do_join
  <2>3. /\ registered' \subseteq Servers /\ node' \in [Servers -> Label]
        /\ conf' \in Servers \cup {None} /\ member' \in BOOLEAN /\ HasNode'
        /\ Joins(c.ip) => member' /\ conf' = c.ip /\ c.ip \in registered'
    BY <2>1, <2>2, JoinMaster
  <2>4. CASE Joins(c.ip)
    <3>1. /\ row' = [connected |-> "true", ip |-> c.ip]
          /\ db' = [db EXCEPT ![NodeLabel] = CHOOSE v \in Values : TRUE]
      BY <2>1, <2>4 DEF do_join
    <3>2. (CHOOSE v \in Values : TRUE) \in Values BY NodeLabelAssumption
    <3>3. db' \in Label BY <3>1, <3>2 DEF TypeOK, Label
    <3>4. JoinedAsAsked'
      BY <1>1, <2>1, <2>2, <2>3, <2>4, <3>1 DEF JoinedAsAsked, is_connected, Wanted
    <3> QED BY <2>1, <2>2, <2>3, <2>4, <3>1, <3>3, <3>4
  <2>5. CASE ~Joins(c.ip)
    <3>1. row' = [row EXCEPT !.connected = "false"] /\ db' = db
      BY <2>1, <2>5 DEF do_join
    <3>2. /\ row' \in [connected : {"", "true", "false"}, ip : Servers \cup {None}]
          /\ row'.connected = "false"
      BY <3>1 DEF TypeOK
    <3>3. JoinedAsAsked' BY <2>2, <2>5, <3>2 DEF JoinedAsAsked
    <3>4. db' \in Label BY <3>1 DEF TypeOK
    <3>5. /\ pending' = TRUE /\ joins' = 1 /\ remote_connected' = FALSE
      BY <2>1, <2>2, <2>5 DEF Joins
    <3> QED BY <2>3, <3>1, <3>2, <3>3, <3>4, <3>5
  <2> QED BY <2>4, <2>5
<1>2. CASE ~Wanted(c)
  <2>1. do_reset /\ pending' = FALSE /\ joins' = 0
    BY <1>2 DEF handle_update
  <2>2. /\ kube_reset_master /\ row' = [row EXCEPT !.connected = "false"]
        /\ remote_connected' = FALSE /\ db' = db
    BY <2>1 DEF do_reset
  <2>3. /\ registered' \subseteq Servers /\ node' \in [Servers -> Label]
        /\ conf' = None /\ member' = FALSE
    BY <2>2, ResetMaster
  <2>4. /\ row' \in [connected : {"", "true", "false"}, ip : Servers \cup {None}]
        /\ row'.connected = "false"
    BY <2>2 DEF TypeOK
  <2>5. HasNode' /\ JoinedAsAsked' BY <2>2, <2>3, <2>4 DEF HasNode, JoinedAsAsked
  <2> QED BY <2>1, <2>2, <2>3, <2>4, <2>5 DEF TypeOK
<1> QED BY <1>1, <1>2

\* A step of RemoteServerHandler, given what it leaves to handle_update.
LEMMA Remote ==
  ASSUME IInv, NEW c \in Config, handle_update(c, 0), cfg_server' = c,
         up' = TRUE, cfg' = cfg, health' = health, cfgN' \in BOOLEAN,
         dbN' \in BOOLEAN, remote_connected' => dbN', UNCHANGED labels,
         ~dbN' => set_labels = db'
  PROVE  IInv'
<1>1. /\ db' \in Label
      /\ row' \in [connected : {"", "true", "false"}, ip : Servers \cup {None}]
      /\ registered' \subseteq Servers /\ node' \in [Servers -> Label]
      /\ conf' \in Servers \cup {None} /\ member' \in BOOLEAN
      /\ pending' \in BOOLEAN /\ joins' = IF pending' THEN 1 ELSE 0
      /\ remote_connected' \in BOOLEAN
      /\ HasNode' /\ JoinedAsAsked'
  BY HandleUpdate DEF IInv
<1>2. UNCHANGED <<set_labels, lpending, writes>> BY DEF labels
<1>3. TypeOK' BY <1>1, <1>2 DEF IInv, TypeOK
<1>4. OneTimer' BY <1>1, <1>2 DEF IInv, OneTimer
<1>5. NoLabelLost' BY DEF NoLabelLost
<1>6. Current' /\ Reset' BY <1>2 DEF Current, Reset
<1> QED BY <1>1, <1>3, <1>4, <1>5, <1>6 DEF IInv

LEMMA ConfigUpdate == IInv /\ on_config_update => IInv'
<1> SUFFICES ASSUME IInv, on_config_update PROVE IInv' OBVIOUS
<1>1. CASE cfg_server = cfg \/ pending
  <2>1. /\ cfg_server' = cfg /\ cfgN' = FALSE /\ ~(remote_connected /\ cfg_server' # cfg_server)
        /\ UNCHANGED <<db, dbN, pending, joins, remote_connected, row, registered,
                       node, conf, member, cfg, health, up, set_labels, lpending, writes>>
    BY <1>1 DEF on_config_update, masters, labels, IInv, JoinedAsAsked
  <2>2. TypeOK' BY <2>1 DEF IInv, TypeOK
  <2>3. JoinedAsAsked' BY <2>1 DEF IInv, JoinedAsAsked, is_connected, Wanted
  <2>4. OneTimer' /\ NoLabelLost' /\ Current' /\ HasNode' /\ Reset'
    BY <2>1 DEF IInv, OneTimer, NoLabelLost, InSync, Current, HasNode, Reset
  <2> QED BY <2>2, <2>3, <2>4 DEF IInv
<1>2. CASE cfg_server # cfg /\ ~pending
  <2>1. joins = 0 BY <1>2 DEF IInv, OneTimer
  <2>2. /\ up /\ up' = TRUE /\ cfg_server' = cfg /\ cfgN' = FALSE
        /\ handle_update(cfg, 0) /\ dbN' = (dbN \/ remote_connected')
        /\ UNCHANGED <<cfg, health, labels>>
    BY <1>2, <2>1 DEF on_config_update, IInv, TypeOK
  <2>3. remote_connected' \in BOOLEAN /\ (~remote_connected' => db' = db)
    BY <2>2, HandleUpdate DEF IInv, TypeOK
  <2>4. ~dbN' => set_labels = db' BY <2>2, <2>3 DEF IInv, Current
  <2>5. dbN' \in BOOLEAN BY <2>2
  <2> QED BY <2>2, <2>4, <2>5, Remote DEF IInv, TypeOK
<1> QED BY <1>1, <1>2

LEMMA JoinTimerInv == IInv /\ JoinTimer => IInv'
<1> SUFFICES ASSUME IInv, JoinTimer PROVE IInv' OBVIOUS
<1>1. joins = 1 BY DEF IInv, OneTimer, JoinTimer
<1>2. /\ up /\ up' = TRUE /\ cfg_server' = cfg_server
      /\ handle_update(cfg_server, 0) /\ dbN' = (dbN \/ remote_connected')
      /\ UNCHANGED <<cfg, cfgN, health, labels>>
  <2>1. handle_update(cfg_server, 0) BY <1>1 DEF JoinTimer, handle_update
  <2> QED BY <2>1 DEF JoinTimer, IInv, TypeOK
<1>3. remote_connected' \in BOOLEAN /\ (~remote_connected' => db' = db)
  BY <1>2, HandleUpdate DEF IInv, TypeOK
<1>4. ~dbN' => set_labels = db' BY <1>2, <1>3 DEF IInv, Current
<1>5. dbN' \in BOOLEAN BY <1>2
<1> QED BY <1>2, <1>4, <1>5, Remote DEF IInv, TypeOK

LEMMA DownInv ==
  ASSUME IInv, Down, registered' \subseteq Servers, node' \in [Servers -> Label],
         conf' \in Servers \cup {None}, member' \in BOOLEAN, HasNode'
  PROVE  IInv'
<1>1. NoConfig \in Config BY DEF NoConfig, Config
<1>2. TypeOK' BY <1>1, BareLabel DEF IInv, TypeOK, Down
<1>3. OneTimer' /\ JoinedAsAsked' /\ NoLabelLost' /\ Current' /\ Reset'
  BY DEF Down, OneTimer, JoinedAsAsked, NoLabelLost, Current, Reset
<1> QED BY <1>2, <1>3 DEF IInv

LEMMA ReadFailsInv == IInv /\ ReadFails => IInv'
<1> SUFFICES ASSUME IInv, ReadFails PROVE IInv' OBVIOUS
<1>1. Down /\ UNCHANGED <<registered, node, conf, member>> BY DEF ReadFails, masters
<1>2. /\ registered' \subseteq Servers /\ node' \in [Servers -> Label]
      /\ conf' \in Servers \cup {None} /\ member' \in BOOLEAN
  BY <1>1 DEF IInv, TypeOK
<1>3. HasNode' BY <1>1 DEF IInv, HasNode
<1> QED BY <1>1, <1>2, <1>3, DownInv

LEMMA UpdateNodeLabels ==
  ASSUME IInv, NEW ls \in Label, Reads, update_node_labels(ls, 0), up,
         UNCHANGED <<cfg, db, cfgN, health, up, registered, conf, member, remote>>,
         dbN' \in BOOLEAN, set_labels' = ls, ~dbN' => ls = db
  PROVE  IInv'
<1>1. /\ kube_write_labels(ls) /\ lpending' = ~Writes(ls)
      /\ writes' = IF Writes(ls) THEN 0 ELSE 1
  BY DEF update_node_labels
<1>2. /\ node' \in [Servers -> Label]
      /\ Writes(ls) => \A l \in Labels : ls[l] # Absent => node'[conf][l] = ls[l]
  BY <1>1, WriteLabels DEF IInv
<1>3. UNCHANGED <<cfg_server, pending, joins, remote_connected, row>> BY DEF remote
<1>4. TypeOK' BY <1>1, <1>2, <1>3 DEF IInv, TypeOK
<1>5. OneTimer' BY <1>1, <1>3 DEF IInv, OneTimer
<1>6. JoinedAsAsked' BY <1>3 DEF IInv, JoinedAsAsked, is_connected, Wanted
<1>7. NoLabelLost' BY <1>1, <1>2 DEF NoLabelLost, InSync
<1>8. Current' /\ HasNode' /\ Reset' BY DEF IInv, Current, HasNode, Reset
<1> QED BY <1>4, <1>5, <1>6, <1>7, <1>8 DEF IInv

LEMMA OnUpdate == IInv /\ on_update => IInv'
<1> SUFFICES ASSUME IInv, on_update, ~ReadFails PROVE IInv'
  BY ReadFailsInv
<1>1. /\ up /\ dbN' = FALSE /\ set_labels' = db /\ db \in Label
      /\ UNCHANGED <<cfg, db, cfgN, health, up, registered, conf, member, remote>>
  BY DEF on_update, IInv, TypeOK
<1>2. CASE remote_connected /\ ~lpending
  <2>1. writes = 0 BY <1>2 DEF IInv, OneTimer
  <2>2. Reads /\ update_node_labels(db, 0) BY <1>2, <2>1 DEF on_update
  <2> QED BY <1>1, <2>2, UpdateNodeLabels
<1>3. CASE ~(remote_connected /\ ~lpending)
  <2>1. UNCHANGED <<node, lpending, writes, cfg_server, pending, joins,
                    remote_connected, row>>
    BY <1>1, <1>3 DEF on_update, remote
  <2>2. TypeOK' BY <1>1, <2>1 DEF IInv, TypeOK
  <2>3. OneTimer' /\ HasNode' BY <1>1, <2>1 DEF IInv, OneTimer, HasNode
  <2>4. JoinedAsAsked' BY <1>1, <2>1 DEF IInv, JoinedAsAsked, is_connected, Wanted
  <2>5. NoLabelLost' /\ Current' /\ Reset'
    BY <1>1, <1>3, <2>1 DEF NoLabelLost, Current, Reset
  <2> QED BY <2>2, <2>3, <2>4, <2>5 DEF IInv
<1> QED BY <1>2, <1>3

LEMMA LabelTimerInv == IInv /\ LabelTimer => IInv'
<1> SUFFICES ASSUME IInv, LabelTimer, ~ReadFails PROVE IInv'
  BY ReadFailsInv
<1>1. writes = 1 BY DEF IInv, OneTimer, LabelTimer
<1>2. /\ up /\ Reads /\ update_node_labels(set_labels, 0) /\ set_labels' = set_labels
      /\ UNCHANGED <<cfg, db, cfgN, dbN, health, up, registered, conf, member, remote>>
  <2>1. update_node_labels(set_labels, writes - 1) BY DEF LabelTimer
  <2>2. writes - 1 = 0 BY <1>1
  <2>3. update_node_labels(set_labels, 0) BY <2>1, <2>2
  <2> QED BY <2>3 DEF LabelTimer
<1>3. set_labels \in Label /\ dbN' \in BOOLEAN /\ (~dbN' => set_labels = db)
  BY <1>2 DEF IInv, TypeOK, Current
<1> QED BY <1>2, <1>3, UpdateNodeLabels

LEMMA StartInv == IInv /\ Start => IInv'
<1> SUFFICES ASSUME IInv, Start PROVE IInv' OBVIOUS
<1>1. /\ ~up /\ up' = TRUE /\ cfg_server' = cfg /\ cfgN' = (cfg # NoConfig)
      /\ dbN' = (db' # Bare) /\ UNCHANGED <<cfg, health, labels>>
  BY DEF Start
<1>2. /\ ~remote_connected /\ ~lpending /\ writes = 0 /\ set_labels = Bare
      /\ UNCHANGED <<set_labels, lpending, writes>>
  BY <1>1 DEF IInv, Reset, labels
<1>3. CASE row = NoServerRow
  <2>1. /\ pending' = TRUE /\ joins' = 1
        /\ UNCHANGED <<db, remote_connected, row, registered, node, conf, member>>
    BY <1>3 DEF Start, masters
  <2>2. TypeOK' BY <1>1, <1>2, <2>1 DEF IInv, TypeOK
  <2>3. OneTimer' /\ HasNode' BY <1>1, <1>2, <2>1 DEF IInv, OneTimer, HasNode
  <2>4. JoinedAsAsked' BY <1>2, <1>3, <2>1 DEF JoinedAsAsked, NoServerRow
  <2>5. NoLabelLost' /\ Current' /\ Reset'
    BY <1>1, <1>2, <2>1 DEF NoLabelLost, Current, Reset
  <2> QED BY <2>2, <2>3, <2>4, <2>5 DEF IInv
<1>4. CASE row # NoServerRow
  <2>1. handle_update(cfg, 0) BY <1>4 DEF Start
  <2>2. remote_connected' => db' # Bare
    <3>1. ASSUME remote_connected' PROVE db' # Bare
      <4>1. do_join(cfg.ip) /\ Joins(cfg.ip)
        BY <2>1, <3>1 DEF handle_update, do_reset, do_join
      <4>2. db' = [db EXCEPT ![NodeLabel] = CHOOSE v \in Values : TRUE]
        BY <4>1 DEF do_join
      <4>3. (CHOOSE v \in Values : TRUE) \in Values BY NodeLabelAssumption
      <4>4. db'[NodeLabel] # Absent
        BY <4>2, <4>3, AbsentAssumption, NodeLabelAssumption DEF IInv, TypeOK, Label
      <4> QED BY <4>4, NodeLabelAssumption DEF Bare
    <3> QED BY <3>1
  <2>3. dbN' \in BOOLEAN /\ cfgN' \in BOOLEAN BY <1>1
  <2>4. cfg \in Config BY DEF IInv, TypeOK
  <2> QED BY <1>1, <1>2, <2>1, <2>2, <2>3, <2>4, Remote
<1> QED BY <1>3, <1>4

LEMMA CrashInv == IInv /\ (Crash \/ CrashInJoin) => IInv'
<1> SUFFICES ASSUME IInv, Crash \/ CrashInJoin PROVE IInv' OBVIOUS
<1>1. CASE Crash
  BY <1>1, DownInv DEF Crash, masters, IInv, TypeOK, HasNode
<1>2. CASE CrashInJoin
  <2>1. PICK c \in {cfg, cfg_server} : Wanted(c) /\ kube_join_master(c.ip) /\ Down
    BY <1>2 DEF CrashInJoin
  <2> c.ip \in Servers BY <2>1 DEF Wanted, Config, IInv, TypeOK
  <2>2. /\ registered' \subseteq Servers /\ node' \in [Servers -> Label]
        /\ conf' \in Servers \cup {None} /\ member' \in BOOLEAN /\ HasNode'
    BY <2>1, JoinMaster DEF IInv
  <2> QED BY <2>1, <2>2, DownInv
<1> QED BY <1>1, <1>2

LEMMA EnvironmentInv == IInv /\ Environment => IInv'
<1> SUFFICES ASSUME IInv, Environment PROVE IInv' OBVIOUS
<1> USE DEF masters, labels, remote
<1>1. ASSUME NEW c \in Configs, SetConfig(c) PROVE IInv'
  <2>1. TypeOK' BY <1>1, ConfigsAssumption DEF SetConfig, IInv, TypeOK
  <2>2. JoinedAsAsked' BY <1>1 DEF SetConfig, IInv, JoinedAsAsked, is_connected, Wanted
  <2>3. OneTimer' /\ NoLabelLost' /\ Current' /\ HasNode' /\ Reset'
    BY <1>1 DEF SetConfig, IInv, OneTimer, NoLabelLost, InSync, Current, HasNode, Reset
  <2> QED BY <2>1, <2>2, <2>3 DEF IInv
<1>2. ASSUME NEW l \in Labels, NEW v \in Values, SetLabel(l, v) PROVE IInv'
  <2>1. TypeOK' BY <1>2 DEF SetLabel, IInv, TypeOK, Label
  <2>2. JoinedAsAsked' BY <1>2 DEF SetLabel, IInv, JoinedAsAsked, is_connected, Wanted
  <2>3. remote_connected' => dbN' BY <1>2 DEF SetLabel, IInv, Reset, TypeOK
  <2>4. NoLabelLost' BY <2>3 DEF NoLabelLost
  <2>5. Current' BY <1>2 DEF SetLabel, Current
  <2>6. OneTimer' /\ HasNode' /\ Reset'
    BY <1>2 DEF SetLabel, IInv, OneTimer, HasNode, Reset
  <2> QED BY <2>1, <2>2, <2>4, <2>5, <2>6 DEF IInv
<1>3. ASSUME NEW s \in Servers, NEW h \in Healths[s], SetHealth(s, h) PROVE IInv'
  <2>1. h \in {"down", "half", "up"} BY HealthsAssumption
  <2>2. TypeOK'
    <3>1. health' \in [Servers -> {"down", "half", "up"}]
      BY <1>3, <2>1 DEF SetHealth, IInv, TypeOK
    <3>2. UNCHANGED <<cfg, db, cfgN, dbN, up, registered, node, conf, member,
                      set_labels, lpending, writes, cfg_server, pending, joins,
                      remote_connected, row>>
      BY <1>3 DEF SetHealth
    <3> QED BY <3>1, <3>2, ZenonT(20) DEF IInv, TypeOK
  <2>3. JoinedAsAsked' BY <1>3 DEF SetHealth, IInv, JoinedAsAsked, is_connected, Wanted
  <2>4. OneTimer' /\ NoLabelLost' /\ Current' /\ HasNode' /\ Reset'
    BY <1>3 DEF SetHealth, IInv, OneTimer, NoLabelLost, InSync, Current, HasNode, Reset
  <2> QED BY <2>2, <2>3, <2>4 DEF IInv
<1> QED BY <1>1, <1>2, <1>3 DEF Environment

LEMMA NextInv == IInv /\ [Next]_vars => IInv'
<1> SUFFICES ASSUME IInv, [Next]_vars PROVE IInv' OBVIOUS
<1>1. CASE UNCHANGED vars
  <2>1. UNCHANGED <<cfg, db, cfgN, dbN, health, up, registered, node, conf, member,
                    set_labels, lpending, writes, cfg_server, pending, joins,
                    remote_connected, row>>
    BY <1>1 DEF vars, masters, labels, remote
  <2>2. TypeOK' BY <2>1, ZenonT(20) DEF IInv, TypeOK
  <2>3. JoinedAsAsked' BY <2>1 DEF IInv, JoinedAsAsked, is_connected, Wanted
  <2>4. OneTimer' /\ NoLabelLost' /\ Current' /\ HasNode' /\ Reset'
    BY <2>1 DEF IInv, OneTimer, NoLabelLost, InSync, Current, HasNode, Reset
  <2> QED BY <2>2, <2>3, <2>4 DEF IInv
<1> QED BY <1>1, EnvironmentInv, ConfigUpdate, JoinTimerInv, OnUpdate, LabelTimerInv,
           StartInv, CrashInv DEF Next, Ctrmgrd

LEMMA Inductive == Spec => []IInv
  BY InitInv, NextInv, PTL DEF Spec

(***************************************************************************)
(* Theorems                                                                *)
(***************************************************************************)
\* Every variable has its type in every reachable state.
THEOREM TypeCorrect == Spec => []TypeOK
  BY Inductive, PTL DEF IInv

\* Each handler of ctrmgrd has exactly one timer while its pending flag is
\* set, and none otherwise.
THEOREM Timers == Spec => []OneTimer
  BY Inductive, PTL DEF IInv

\* What the daemon and STATE_DB say of the connection is so.
THEOREM Joined == Spec => []JoinedAsAsked
  BY Inductive, PTL DEF IInv

\* With no notification and no retry outstanding, the joined API server has
\* every label of STATE_DB.
THEOREM LabelsKept == Spec => []NoLabelLost
  BY Inductive, PTL DEF IInv
=============================================================================
