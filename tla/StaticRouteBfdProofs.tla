------------------------ MODULE StaticRouteBfdProofs ------------------------
(***************************************************************************)
(* Theorems about StaticRouteBfd.  The handlers run both in reconciliation *)
(* and in the callbacks, so each has a lemma on what it does to the local  *)
(* tables, and the invariant of the process combines them.                 *)
(***************************************************************************)
EXTENDS StaticRouteBfd, TLAPS

BfdType ==
  /\ bfd \in [NextHops -> SessionStates]
  /\ \A k \in NextHops : bfd[k] \in States[k] \cup {"absent", "new", "DOWN"}

\* The part of TypeOK about the tables the handlers write.
TablesType ==
  /\ session \subseteq NextHops /\ appl \in [Prefixes -> Paths]
  /\ config \in [Prefixes -> Row] /\ hold \subseteq Prefixes
  /\ nexthop \in [NextHops -> SUBSET Prefixes]
  /\ srt \in [Prefixes -> SUBSET NextHops]
  /\ BfdType
  /\ \A p \in Prefixes : config[p].kind \in {"none", "plain", "bfd"}
  /\ marked \subseteq NextHops
  /\ pending \subseteq Intfs \X NextHops /\ interface \subseteq Intfs

\* A session of a next hop in use carries the static_route flag, so that the
\* cleanup after reconciliation keeps it.
InUseMarked ==
  \A k \in NextHops : nexthop[k] # {} /\ bfd[k] # "absent" => k \in marked

TablesInv ==
  /\ TablesType /\ NexthopsIndexed /\ ReachableAnnounced /\ HeldNotReached
  /\ Watched /\ InUseMarked

(***************************************************************************)
(* The handlers of static routes                                           *)
(***************************************************************************)
LEMMA RowFacts ==
  /\ NoPaths \in Paths /\ NoRow \in Row /\ NoRow.kind = "none" /\ Uses(NoRow) = {}
  /\ \A p \in Prefixes : \A r \in Rows[p] \cup {NoRow} : r \in Row
  /\ \A p \in Prefixes : \A r \in Rows[p] : r.kind # "none"
  /\ \A p \in Prefixes : \A r \in Rows[p] : r.kind # "device" => Uses(r) # {}
<1>1. NoPaths \in Paths BY DEF NoPaths, Paths
<1>2. NoRow \in Row BY <1>1 DEF NoRow, Row, Kinds
<1>3. NoRow.kind = "none" /\ NoRow.nhs = NoPaths BY DEF NoRow
<1>4. Uses(NoRow) = {} BY <1>3 DEF Uses, NoPaths
<1> QED BY <1>1, <1>2, <1>3, <1>4, RowsAssumption

\* Sessions end or start.
LEMMA Ended ==
  ASSUME BfdType, NEW ks, NEW v \in {"absent", "new", "DOWN"},
         bfd' = [k \in NextHops |-> IF k \in ks THEN v ELSE bfd[k]]
  PROVE  BfdType'
<1>1. v \in SessionStates BY DEF SessionStates
<1>2. bfd' \in [NextHops -> SessionStates] BY <1>1 DEF BfdType
<1>3. ASSUME NEW k \in NextHops PROVE bfd'[k] = v \/ bfd'[k] = bfd[k] OBVIOUS
<1>4. \A k \in NextHops : bfd'[k] \in States[k] \cup {"absent", "new", "DOWN"}
  BY <1>3 DEF BfdType
<1> QED BY <1>2, <1>4 DEF BfdType

\* The row of a route that is not BFD-enabled is replaced by another such.
LEMMA NotBfd ==
  ASSUME TablesInv, NEW p \in Prefixes, config[p].kind # "bfd",
         NEW r \in Row, r.kind \in {"none", "plain"},
         config' = [config EXCEPT ![p] = r], hold' = hold \ {p},
         UNCHANGED <<nexthop, bfd, marked, session, appl, srt, pending, interface>>
  PROVE  TablesInv'
<1>1. /\ config' \in [Prefixes -> Row] /\ config'[p] = r
      /\ \A q \in Prefixes \ {p} : config'[q] = config[q]
  BY DEF TablesInv, TablesType
<1>2. TablesType' BY <1>1 DEF TablesInv, TablesType, BfdType
<1>3. NexthopsIndexed' BY <1>1 DEF TablesInv, NexthopsIndexed, Uses
<1>4. ReachableAnnounced' BY <1>1 DEF TablesInv, TablesType, ReachableAnnounced, Uses
<1>5. HeldNotReached' BY <1>1 DEF TablesInv, TablesType, HeldNotReached
<1>6. Watched' BY DEF TablesInv, Watched
<1>7. InUseMarked' BY DEF TablesInv, InUseMarked
<1> QED BY <1>2, <1>3, <1>4, <1>5, <1>6, <1>7 DEF TablesInv

\* A BFD-enabled route is deleted or no longer BFD-enabled.
LEMMA Withdrawn ==
  ASSUME TablesInv, NEW p \in Prefixes, config[p].kind = "bfd", Withdraw(p),
         NEW r \in Row, r.kind \in {"none", "plain"},
         config' = [config EXCEPT ![p] = r], hold' = hold \ {p},
         UNCHANGED <<pending, interface>>
  PROVE  TablesInv'
<1> DEFINE ks == Uses(config[p])
           gone == Unused(ks, p)
<1>1. /\ config' \in [Prefixes -> Row] /\ config'[p] = r
      /\ \A q \in Prefixes \ {p} : config'[q] = config[q]
  BY DEF TablesInv, TablesType
<1>2. /\ nexthop' = [k \in NextHops |-> IF k \in ks THEN nexthop[k] \ {p}
                                       ELSE nexthop[k]]
      /\ bfd' = [k \in NextHops |-> IF k \in gone THEN "absent" ELSE bfd[k]]
      /\ marked' = marked \ gone /\ session' = session \ gone
      /\ appl' = [appl EXCEPT ![p] = NoPaths] /\ srt' = [srt EXCEPT ![p] = {}]
  BY DEF Withdraw, remove_from_nh_table_entry, remove_sessions
<1>3. gone = {k \in ks : nexthop[k] \ {p} = {}} BY DEF Unused
<1>4. ks \subseteq NextHops /\ \A k \in ks : p \in nexthop[k]
  BY DEF Uses, TablesInv, NexthopsIndexed
<1>5. \A k \in NextHops : p \in nexthop[k] => k \in ks
  BY DEF TablesInv, NexthopsIndexed
<1>6. \A q \in Prefixes : \A k \in srt[q] : q \in nexthop[k]
  BY DEF TablesInv, TablesType, NexthopsIndexed, ReachableAnnounced
<1> HIDE DEF ks, gone
<1>7. TablesType'
  <2>1. BfdType' BY <1>2, Ended, ZenonT(30) DEF TablesInv, TablesType
  <2>2. appl' \in [Prefixes -> Paths] BY <1>2, RowFacts DEF TablesInv, TablesType
  <2>3. /\ nexthop' \in [NextHops -> SUBSET Prefixes]
        /\ srt' \in [Prefixes -> SUBSET NextHops]
    BY <1>2 DEF TablesInv, TablesType
  <2> QED BY <1>1, <1>2, <2>1, <2>2, <2>3 DEF TablesInv, TablesType
<1>8. NexthopsIndexed'
  BY <1>1, <1>2, <1>5 DEF TablesInv, TablesType, NexthopsIndexed, Uses
<1>9. ReachableAnnounced'
  <2> SUFFICES ASSUME NEW q \in Prefixes, NEW k \in srt'[q]
               PROVE  /\ config'[q].kind = "bfd" /\ k \in Uses(config'[q])
                      /\ appl'[q][k] = config'[q].nhs[k]
                      /\ bfd'[k] \notin {"absent", "DOWN"}
    BY DEF ReachableAnnounced
  <2>1. q # p /\ k \in srt[q] /\ k \in NextHops BY <1>2 DEF TablesInv, TablesType
  <2>2. k \notin gone BY <2>1, <1>3, <1>6
  <2> QED BY <1>1, <1>2, <2>1, <2>2 DEF TablesInv, TablesType, ReachableAnnounced
<1>10. HeldNotReached' BY <1>1, <1>2 DEF TablesInv, TablesType, HeldNotReached
<1>11. Watched'
  BY <1>2, <1>3, <1>4 DEF TablesInv, TablesType, Watched
<1>12. InUseMarked'
  BY <1>2, <1>3, <1>4 DEF TablesInv, TablesType, InUseMarked
<1> QED BY <1>7, <1>8, <1>9, <1>10, <1>11, <1>12 DEF TablesInv

LEMMA DelHandler ==
  ASSUME TablesInv, NEW p \in Prefixes, static_route_del_handler(p),
         UNCHANGED interface
  PROVE  TablesInv'
<1>1. CASE config[p].kind = "bfd"
  BY <1>1, RowFacts, Withdrawn, ZenonT(30) DEF static_route_del_handler
<1>2. CASE config[p].kind # "bfd"
  BY <1>2, RowFacts, NotBfd, ZenonT(30) DEF static_route_del_handler
<1> QED BY <1>1, <1>2

LEMMA PlainHandler ==
  ASSUME TablesInv, NEW p \in Prefixes, NEW r \in Row, r.kind = "plain",
         SetPlain(p, r), UNCHANGED interface
  PROVE  TablesInv'
<1>1. CASE config[p].kind = "bfd" BY <1>1, Withdrawn, ZenonT(30) DEF SetPlain
<1>2. CASE config[p].kind # "bfd" BY <1>2, NotBfd, ZenonT(30) DEF SetPlain
<1> QED BY <1>1, <1>2

LEMMA UnmatchedHandler ==
  ASSUME TablesInv, NEW p \in Prefixes, NEW r \in Row, SetUnmatched(p, r),
         UNCHANGED interface
  PROVE  TablesInv'
<1>1. UNCHANGED <<config, hold, nexthop, srt, bfd, marked, pending, session>>
  BY DEF SetUnmatched, local
<1>2. appl' = appl \/ (config[p].kind = "plain" /\ appl' = [appl EXCEPT ![p] = r.nhs])
  BY DEF SetUnmatched, Toggled
<1>3. r.nhs \in Paths BY DEF Row
<1>4. TablesType' BY <1>1, <1>2, <1>3 DEF TablesInv, TablesType, BfdType
<1>5. NexthopsIndexed' /\ Watched' /\ InUseMarked'
  BY <1>1 DEF TablesInv, NexthopsIndexed, Watched, InUseMarked
<1>6. ReachableAnnounced'
  BY <1>1, <1>2 DEF TablesInv, TablesType, ReachableAnnounced
<1>7. HeldNotReached' BY <1>1, <1>2 DEF TablesInv, TablesType, HeldNotReached
<1> QED BY <1>4, <1>5, <1>6, <1>7 DEF TablesInv

\* A BFD-enabled row is set: the next hops of it, new or changed or kept.
LEMMA BfdHandler ==
  ASSUME TablesInv, NEW p \in Prefixes, NEW r \in Row, r.kind = "bfd",
         SetBfd(p, r), UNCHANGED interface
  PROVE  TablesInv'
<1> DEFINE cur       == config[p]
           removed   == IF cur.kind = "bfd"
                        THEN {k \in Uses(cur) : r.nhs[k] # cur.nhs[k]} ELSE {}
           gone      == Unused(removed, p)
           users     == remove_from_nh_table_entry(removed, p)
           known     == remove_sessions(gone)
           missing   == {k \in Uses(r) : users[k] = {} /\ known[k] = "absent"}
           postponed == {k \in missing : r.nhs[k] \notin interface}
           created   == missing \ postponed
           sessions  == [k \in NextHops |-> IF k \in created THEN "new"
                                            ELSE known[k]]
           up        == {k \in Uses(r) : sessions[k] = "UP"}
           reachable == (srt[p] \ removed) \cup up
<1>1. /\ config' = [config EXCEPT ![p] = r]
      /\ nexthop' = [k \in NextHops |-> IF k \in Uses(r) THEN users[k] \cup {p}
                                        ELSE users[k]]
      /\ bfd' = sessions
      /\ marked' = (marked \ gone) \cup {k \in Uses(r) : sessions[k] # "absent"}
      /\ session' = (session \ gone) \cup created
      /\ pending' = pending \cup {<<r.nhs[k], k>> : k \in postponed}
      /\ srt' = [srt EXCEPT ![p] = reachable]
      /\ hold' = IF cur.kind = "plain" /\ up = {} THEN hold \cup {p} ELSE hold \ {p}
      /\ appl' = IF up = {} THEN Toggled(p, r)
                 ELSE [appl EXCEPT ![p] = reconstruct_static_route_config(r, reachable)]
  BY ZenonT(30) DEF SetBfd
<1>2. /\ config' \in [Prefixes -> Row] /\ config'[p] = r
      /\ \A q \in Prefixes \ {p} : config'[q] = config[q]
  BY <1>1, ZenonT(30) DEF TablesInv, TablesType
<1>3. /\ removed \subseteq NextHops /\ gone \subseteq removed
      /\ missing \subseteq Uses(r) /\ postponed \subseteq missing
      /\ created \subseteq missing /\ up \subseteq Uses(r) /\ Uses(r) \subseteq NextHops
  BY ZenonT(30) DEF Uses, Unused
<1>4. /\ gone = {k \in removed : nexthop[k] \ {p} = {}}
      /\ \A k \in NextHops : users[k] = IF k \in removed THEN nexthop[k] \ {p}
                                        ELSE nexthop[k]
      /\ \A k \in NextHops : known[k] = IF k \in gone THEN "absent" ELSE bfd[k]
      /\ \A k \in NextHops : sessions[k] = IF k \in created THEN "new" ELSE known[k]
  BY ZenonT(30) DEF Unused, remove_from_nh_table_entry, remove_sessions
<1>5. \A k \in removed : p \in nexthop[k] /\ cur.kind = "bfd" /\ k \in Uses(cur)
  BY DEF TablesInv, NexthopsIndexed, Uses
<1>6. \A k \in NextHops :
        (p \in nexthop[k] /\ k \notin removed) => (k \in Uses(r) /\ r.nhs[k] = cur.nhs[k])
  BY DEF TablesInv, NexthopsIndexed, Uses
<1>7. \A q \in Prefixes : \A k \in srt[q] :
        /\ k \in NextHops /\ q \in nexthop[k] /\ config[q].kind = "bfd"
        /\ bfd[k] \notin {"absent", "DOWN"}
  BY DEF TablesInv, TablesType, NexthopsIndexed, ReachableAnnounced
<1>8. reachable \subseteq Uses(r) /\ reachable \subseteq NextHops
  BY <1>3, <1>6, <1>7, ZenonT(30)
<1>9. r.nhs \in Paths /\ \A k \in Uses(r) : r.nhs[k] \in Intfs
  BY DEF Row, Paths, Uses
<1>a. sessions = [k \in NextHops |-> sessions[k]] BY ZenonT(30)
<1>b. \A k \in Uses(r) : k \in missing <=> users[k] = {} /\ known[k] = "absent"
  BY ZenonT(30)
<1>c. /\ postponed = {k \in missing : r.nhs[k] \notin interface}
      /\ created = missing \ postponed
  OBVIOUS
<1>d. up = {k \in Uses(r) : sessions[k] = "UP"} /\ reachable = (srt[p] \ removed) \cup up
  BY ZenonT(30)
<1> HIDE DEF cur, removed, gone, users, known, missing, postponed, created,
             sessions, up, reachable
<1>10. appl' = appl \/ appl' = [appl EXCEPT ![p] = r.nhs]
       \/ appl' = [appl EXCEPT ![p] = reconstruct_static_route_config(r, reachable)]
  BY <1>1 DEF Toggled
<1>11. reconstruct_static_route_config(r, reachable) \in Paths
  BY <1>9 DEF reconstruct_static_route_config, Paths
<1>12. TablesType'
  <2>1. BfdType'
    <3>1. \A k \in NextHops : bfd'[k] \in {"new", "absent", bfd[k]} BY <1>1, <1>4,
                                                                       ZenonT(30)
    <3>2. \A k \in NextHops :
            /\ bfd'[k] \in SessionStates
            /\ bfd'[k] \in States[k] \cup {"absent", "new", "DOWN"}
      BY <3>1 DEF TablesInv, TablesType, BfdType, SessionStates
    <3> QED BY <1>1, <1>a, <3>2 DEF BfdType
  <2>2. appl' \in [Prefixes -> Paths]
    BY <1>9, <1>10, <1>11 DEF TablesInv, TablesType
  <2>3. nexthop' \in [NextHops -> SUBSET Prefixes]
    BY <1>1, <1>4, ZenonT(30) DEF TablesInv, TablesType
  <2>4. srt' \in [Prefixes -> SUBSET NextHops]
    BY <1>1, <1>8 DEF TablesInv, TablesType
  <2>5. pending' \subseteq Intfs \X NextHops
    <3>1. \A k \in postponed : <<r.nhs[k], k>> \in Intfs \X NextHops BY <1>3, <1>9
    <3>2. pending' = pending \cup {<<r.nhs[k], k>> : k \in postponed} BY <1>1,
                                                                         ZenonT(30)
    <3> QED BY <3>1, <3>2 DEF TablesInv, TablesType
  <2>6. session' \subseteq NextHops /\ marked' \subseteq NextHops /\ hold' \subseteq Prefixes
    BY <1>1, <1>3 DEF TablesInv, TablesType
  <2> QED BY <1>2, <2>1, <2>2, <2>3, <2>4, <2>5, <2>6 DEF TablesInv, TablesType
<1>13. NexthopsIndexed'
  <2> SUFFICES ASSUME NEW q \in Prefixes, NEW k \in NextHops
               PROVE  q \in nexthop'[k] <=> config'[q].kind = "bfd" /\ k \in Uses(config'[q])
    BY DEF NexthopsIndexed, Uses
  <2>1. nexthop'[k] = IF k \in Uses(r) THEN users[k] \cup {p} ELSE users[k] BY <1>1
  <2>2. CASE q = p BY <1>2, <1>4, <1>6, <2>1, <2>2, ZenonT(30)
  <2>3. CASE q # p
    <3>1. q \in nexthop'[k] <=> q \in nexthop[k] BY <1>4, <2>1, <2>3,
                                                    ZenonT(30)
    <3> QED BY <1>2, <2>3, <3>1 DEF TablesInv, NexthopsIndexed
  <2> QED BY <2>2, <2>3
<1>14. ReachableAnnounced'
  <2> SUFFICES ASSUME NEW q \in Prefixes, NEW k \in srt'[q]
               PROVE  /\ config'[q].kind = "bfd" /\ k \in Uses(config'[q])
                      /\ appl'[q][k] = config'[q].nhs[k]
                      /\ bfd'[k] \notin {"absent", "DOWN"}
    BY DEF ReachableAnnounced
  <2>1. CASE q # p
    <3>1. k \in srt[q] BY <1>1, <2>1 DEF TablesInv, TablesType
    <3>2. k \in NextHops /\ k \notin gone BY <1>4, <1>7, <3>1, <2>1
    <3>3. bfd'[k] \in {"new", bfd[k]} BY <1>1, <1>4, <3>2, ZenonT(30)
    <3>4. appl'[q] = appl[q] BY <1>10, <2>1 DEF TablesInv, TablesType
    <3> QED BY <1>2, <2>1, <3>1, <3>3, <3>4 DEF TablesInv, ReachableAnnounced
  <2>2. CASE q = p
    <3>1. k \in reachable BY <1>1, <2>2 DEF TablesInv, TablesType
    <3>2. k \in NextHops /\ k \in Uses(r) BY <3>1, <1>8
    <3>3. bfd'[k] \notin {"absent", "DOWN"}
      <4>1. CASE k \in up BY <4>1, <1>1, <1>d, ZenonT(30)
      <4>2. CASE k \in srt[p] /\ k \notin removed
        BY <4>2, <1>1, <1>3, <1>4, <1>7, <3>2
      <4> QED BY <4>1, <4>2, <3>1, <1>d
    <3>4. appl'[p][k] = r.nhs[k]
      <4>1. CASE up # {}
        <5>1. appl'[p] = reconstruct_static_route_config(r, reachable)
          BY <4>1, <1>1 DEF TablesInv, TablesType
        <5> QED BY <5>1, <3>1, <3>2 DEF reconstruct_static_route_config
      <4>2. CASE up = {}
        <5>1. k \in srt[p] /\ k \notin removed BY <4>2, <3>1, <1>d
        <5>2. cur.kind = "bfd" /\ p \in nexthop[k] BY <5>1, <1>7 DEF cur
        <5>3. appl' = appl BY <4>2, <5>2, <1>1 DEF Toggled, cur
        <5>4. appl[p][k] = cur.nhs[k] BY <5>1 DEF TablesInv, ReachableAnnounced, cur
        <5> QED BY <5>1, <5>2, <5>3, <5>4, <1>6, <3>2
      <4> QED BY <4>1, <4>2
    <3> QED BY <1>2, <2>2, <3>2, <3>3, <3>4
  <2> QED BY <2>1, <2>2
<1>15. HeldNotReached'
  <2> SUFFICES ASSUME NEW q \in hold'
               PROVE  /\ config'[q].kind = "bfd" /\ srt'[q] = {}
                      /\ appl'[q] \in {NoPaths, config'[q].nhs}
    BY DEF HeldNotReached, NoPaths
  <2>1. CASE q # p
    <3>1. q \in hold /\ q \in Prefixes BY <1>1, <2>1 DEF TablesInv, TablesType
    <3>2. appl'[q] = appl[q] /\ srt'[q] = srt[q]
      BY <1>1, <1>10, <2>1, <3>1, ZenonT(30) DEF TablesInv, TablesType
    <3> QED BY <1>2, <2>1, <3>1, <3>2 DEF TablesInv, HeldNotReached
  <2>2. CASE q = p
    <3>1. cur.kind = "plain" /\ up = {} BY <1>1, <2>2, ZenonT(30)
    <3>2. srt[p] = {} BY <1>7, <3>1 DEF cur, TablesInv, TablesType
    <3>3. srt'[p] = {} BY <1>1, <1>d, <3>1, <3>2, ZenonT(30)
                          DEF TablesInv, TablesType
    <3>4. appl'[p] = r.nhs BY <1>1, <3>1 DEF Toggled, cur, TablesInv, TablesType
    <3> QED BY <1>2, <2>2, <3>3, <3>4
  <2> QED BY <2>1, <2>2
<1>16. Watched'
  <2>1. ASSUME NEW k \in NextHops, nexthop'[k] # {}
        PROVE  bfd'[k] # "absent" \/ \E i \in Intfs : <<i, k>> \in pending'
    <3>1. CASE k \in missing
      <4>1. CASE k \in created BY <4>1, <1>1, <1>4, ZenonT(30)
      <4>2. CASE k \in postponed BY <4>2, <1>1, <1>3, <1>9, ZenonT(30)
      <4> QED BY <3>1, <4>1, <4>2, <1>c
    <3>2. CASE k \notin missing
      <4>1. users[k] # {} \/ known[k] # "absent"
        BY <3>2, <2>1, <1>1, <1>b
      <4>2. users[k] # {} => k \notin gone /\ nexthop[k] # {} BY <1>4,
                                                                 ZenonT(30)
      <4>3. known[k] # "absent" => bfd'[k] # "absent" BY <1>1, <1>4
      <4>4. nexthop[k] # {} => bfd[k] # "absent" \/ \E i \in Intfs : <<i, k>> \in pending
        BY DEF TablesInv, Watched
      <4>5. pending \subseteq pending' BY <1>1, ZenonT(30)
      <4> QED BY <4>1, <4>2, <4>3, <4>4, <4>5, <1>4
    <3> QED BY <3>1, <3>2
  <2>2. ASSUME NEW k \in NextHops, bfd'[k] # "absent" PROVE k \in session'
    <3>1. k \in created \/ (k \notin gone /\ bfd[k] # "absent") BY <2>2, <1>1, <1>4
    <3> QED BY <3>1, <1>1 DEF TablesInv, Watched
  <2>3. ASSUME NEW x \in pending' PROVE x[1] \notin interface
    <3>1. x \in pending \/ \E k \in postponed : x = <<r.nhs[k], k>> BY <1>1
    <3> QED BY <3>1, <1>c DEF TablesInv, Watched
  <2> QED BY <2>1, <2>2, <2>3 DEF Watched
<1>17. InUseMarked'
  <2> SUFFICES ASSUME NEW k \in NextHops, nexthop'[k] # {}, bfd'[k] # "absent"
               PROVE  k \in marked'
    BY DEF InUseMarked
  <2>1. CASE k \in Uses(r) BY <2>1, <1>1
  <2>2. CASE k \notin Uses(r)
    <3>1. nexthop[k] # {} /\ bfd[k] # "absent" /\ k \notin gone
      BY <2>2, <1>1, <1>3, <1>4, ZenonT(30)
    <3> QED BY <3>1, <1>1, ZenonT(30) DEF TablesInv, InUseMarked
  <2> QED BY <2>1, <2>2
<1> QED BY <1>12, <1>13, <1>14, <1>15, <1>16, <1>17 DEF TablesInv

LEMMA TablesKept ==
  ASSUME TablesInv, UNCHANGED tables, UNCHANGED interface
  PROVE  TablesInv'
  BY ZenonT(30)
     DEF tables, local, TablesInv, TablesType, BfdType, NexthopsIndexed,
         ReachableAnnounced, HeldNotReached, Watched, InUseMarked

LEMMA SetHandler ==
  ASSUME TablesInv, NEW p \in Prefixes, NEW r \in Row,
         static_route_set_handler(p, r), UNCHANGED interface
  PROVE  TablesInv'
<1>1. CASE r.kind = "none" /\ UNCHANGED tables BY <1>1, TablesKept
<1>2. CASE r.kind = "plain" /\ SetPlain(p, r) BY <1>2, PlainHandler
<1>3. CASE r.kind = "unmatched" /\ SetUnmatched(p, r) BY <1>3, UnmatchedHandler
<1>4. CASE r.kind = "bfd" /\ SetBfd(p, r) BY <1>4, BfdHandler
<1> QED BY <1>1, <1>2, <1>3, <1>4 DEF static_route_set_handler

(***************************************************************************)
(* The handlers of interfaces and session states                           *)
(***************************************************************************)
LEMMA InterfaceSet ==
  ASSUME TablesInv, NEW i \in Intfs, interface_set_handler(i)
  PROVE  TablesInv'
<1> DEFINE ready == {k \in NextHops : <<i, k>> \in pending}
<1>1. /\ interface' = interface \cup {i} /\ session' = session \cup ready
      /\ bfd' = [k \in NextHops |-> IF k \in ready THEN "new" ELSE bfd[k]]
      /\ marked' = marked \cup ready /\ pending' = {x \in pending : x[1] # i}
      /\ UNCHANGED <<config, hold, nexthop, srt, appl>>
  BY DEF interface_set_handler
<1>2. \A k \in NextHops : k \in ready <=> <<i, k>> \in pending OBVIOUS
<1>3. ready \subseteq NextHops OBVIOUS
<1> HIDE DEF ready
<1>4. TablesType'
  <2>1. BfdType' BY <1>1, Ended, ZenonT(30) DEF TablesInv, TablesType
  <2> QED BY <1>1, <1>3, <2>1 DEF TablesInv, TablesType
<1>5. NexthopsIndexed' /\ HeldNotReached'
  BY <1>1, ZenonT(30) DEF TablesInv, NexthopsIndexed, HeldNotReached
<1>6. ReachableAnnounced' BY <1>1 DEF TablesInv, TablesType, ReachableAnnounced
<1>7. Watched'
  <2>1. ASSUME NEW k \in NextHops, nexthop'[k] # {}
        PROVE  bfd'[k] # "absent" \/ \E j \in Intfs : <<j, k>> \in pending'
    <3>1. CASE k \in ready BY <3>1, <1>1
    <3>2. CASE k \notin ready
      <4>1. bfd'[k] = bfd[k] BY <3>2, <1>1
      <4>2. \A j \in Intfs : <<j, k>> \in pending => <<j, k>> \in pending'
        BY <3>2, <1>1, <1>2
      <4> QED BY <2>1, <4>1, <4>2, <1>1 DEF TablesInv, Watched
    <3> QED BY <3>1, <3>2
  <2>2. \A k \in NextHops : bfd'[k] # "absent" => k \in session'
    BY <1>1 DEF TablesInv, Watched
  <2>3. \A x \in pending' : x[1] \notin interface' BY <1>1 DEF TablesInv, Watched
  <2> QED BY <2>1, <2>2, <2>3 DEF Watched
<1>8. InUseMarked' BY <1>1 DEF TablesInv, InUseMarked
<1> QED BY <1>4, <1>5, <1>6, <1>7, <1>8 DEF TablesInv

LEMMA InterfaceDel ==
  ASSUME TablesInv, NEW i \in Intfs, interface_del_handler(i)
  PROVE  TablesInv'
<1>1. interface' = interface \ {i} /\ UNCHANGED tables BY DEF interface_del_handler
<1> QED BY <1>1, ZenonT(30)
           DEF tables, local, TablesInv, TablesType, BfdType, NexthopsIndexed,
                    ReachableAnnounced, HeldNotReached, Watched, InUseMarked

\* The state of a session that is known changes.
LEMMA StateKept ==
  ASSUME TablesInv, NEW k \in NextHops, bfd[k] # "absent",
         NEW v \in States[k] \cup {"DOWN"}, bfd' = [bfd EXCEPT ![k] = v]
  PROVE  /\ BfdType' /\ bfd'[k] = v /\ v # "absent"
         /\ \A j \in NextHops \ {k} : bfd'[j] = bfd[j]
         /\ \A j \in NextHops : bfd'[j] = "absent" <=> bfd[j] = "absent"
<1>1. v # "absent" /\ v \in SessionStates BY StatesAssumption DEF SessionStates
<1>2. /\ bfd' \in [NextHops -> SessionStates] /\ bfd'[k] = v
      /\ \A j \in NextHops \ {k} : bfd'[j] = bfd[j]
  BY <1>1 DEF TablesInv, TablesType, BfdType
<1>3. \A j \in NextHops : bfd'[j] \in States[j] \cup {"absent", "new", "DOWN"}
  BY <1>2 DEF TablesInv, TablesType, BfdType
<1> QED BY <1>1, <1>2, <1>3 DEF BfdType

\* What the sessions table and the index say stays true if the same sessions
\* are known.
LEMMA SameSessions ==
  ASSUME TablesInv, UNCHANGED <<config, nexthop, marked, pending, session, interface>>,
         \A j \in NextHops : bfd'[j] = "absent" <=> bfd[j] = "absent"
  PROVE  NexthopsIndexed' /\ Watched' /\ InUseMarked'
  BY ZenonT(30) DEF TablesInv, NexthopsIndexed, Watched, InUseMarked

LEMMA Dropped ==
  ASSUME TablesInv, NEW k \in NextHops, NEW ps \in SUBSET nexthop[k],
         nexthop[k] \ hold \subseteq ps, Drop(ps, k), UNCHANGED interface,
         BfdType', \A j \in NextHops \ {k} : bfd'[j] = bfd[j],
         bfd'[k] = "absent" <=> bfd[k] = "absent"
  PROVE  TablesInv'
<1> USE DEF reconstruct_static_route_config
<1>1. /\ srt' = [p \in Prefixes |-> IF p \in ps THEN srt[p] \ {k} ELSE srt[p]]
      /\ appl' = [p \in Prefixes |->
                    IF p \in ps
                    THEN reconstruct_static_route_config(config[p], srt[p] \ {k})
                    ELSE appl[p]]
      /\ UNCHANGED <<config, hold, nexthop, marked, pending, session>>
  BY DEF Drop
<1>2. \A p \in Prefixes :
        reconstruct_static_route_config(config[p], srt[p] \ {k}) \in Paths
  <2>1. \A p \in Prefixes : config[p].nhs \in Paths
    BY DEF TablesInv, TablesType, Row
  <2> QED BY <2>1 DEF Paths
<1>3. TablesType'
  <2>1. appl' \in [Prefixes -> Paths] BY <1>1, <1>2 DEF TablesInv, TablesType
  <2>2. srt' \in [Prefixes -> SUBSET NextHops] BY <1>1 DEF TablesInv, TablesType
  <2> QED BY <1>1, <2>1, <2>2 DEF TablesInv, TablesType
<1>4. NexthopsIndexed' /\ Watched' /\ InUseMarked'
  BY <1>1, SameSessions
<1>5. ReachableAnnounced'
  <2> SUFFICES ASSUME NEW q \in Prefixes, NEW j \in srt'[q]
               PROVE  /\ config'[q].kind = "bfd" /\ j \in Uses(config'[q])
                      /\ appl'[q][j] = config'[q].nhs[j]
                      /\ bfd'[j] \notin {"absent", "DOWN"}
    BY DEF ReachableAnnounced
  <2>1. j \in srt[q] /\ j \in NextHops BY <1>1 DEF TablesInv, TablesType
  <2>2. /\ config[q].kind = "bfd" /\ j \in Uses(config[q])
        /\ appl[q][j] = config[q].nhs[j] /\ bfd[j] \notin {"absent", "DOWN"}
    BY <2>1 DEF TablesInv, ReachableAnnounced
  <2>3. q \notin hold BY <2>1 DEF TablesInv, HeldNotReached
  <2>4. q \in nexthop[j] BY <2>1, <2>2 DEF TablesInv, NexthopsIndexed
  <2>5. j # k BY <1>1, <2>3, <2>4
  <2>6. appl'[q][j] = config[q].nhs[j] BY <1>1, <2>1, <2>2, <2>5
  <2> QED BY <1>1, <2>1, <2>2, <2>5, <2>6
<1>6. HeldNotReached'
  <2> SUFFICES ASSUME NEW q \in hold
               PROVE  /\ config[q].kind = "bfd" /\ srt'[q] = {}
                      /\ appl'[q] \in {NoPaths, config[q].nhs}
    BY <1>1, ZenonT(30) DEF HeldNotReached, NoPaths
  <2>1. /\ q \in Prefixes /\ config[q].kind = "bfd" /\ srt[q] = {}
        /\ appl[q] \in {NoPaths, config[q].nhs}
    BY DEF TablesInv, TablesType, HeldNotReached
  <2>2. reconstruct_static_route_config(config[q], srt[q] \ {k}) = NoPaths
    BY <2>1 DEF NoPaths
  <2> QED BY <1>1, <2>1, <2>2
<1> QED BY <1>3, <1>4, <1>5, <1>6, ZenonT(30) DEF TablesInv

LEMMA Upped ==
  ASSUME TablesInv, NEW k \in NextHops, bfd[k] # "absent", SessionUp(k),
         UNCHANGED interface, bfd' = [bfd EXCEPT ![k] = "UP"], "UP" \in States[k]
  PROVE  TablesInv'
<1> USE DEF reconstruct_static_route_config
<1> DEFINE ps == {p \in nexthop[k] : k \notin srt[p]}
<1>1. /\ srt' = [p \in Prefixes |-> IF p \in ps THEN srt[p] \cup {k} ELSE srt[p]]
      /\ appl' = [p \in Prefixes |->
                    IF p \in ps
                    THEN reconstruct_static_route_config(config[p], srt[p] \cup {k})
                    ELSE appl[p]]
      /\ hold' = hold \ ps
      /\ UNCHANGED <<config, nexthop, marked, pending, session>>
  BY DEF SessionUp
<1>2. \A p \in Prefixes :
        reconstruct_static_route_config(config[p], srt[p] \cup {k}) \in Paths
  BY DEF TablesInv, TablesType, Row, Paths
<1>3. /\ BfdType' /\ bfd'[k] = "UP" /\ \A j \in NextHops \ {k} : bfd'[j] = bfd[j]
      /\ \A j \in NextHops : bfd'[j] = "absent" <=> bfd[j] = "absent"
  BY StateKept, ZenonT(30)
<1>4. TablesType'
  <2>1. appl' \in [Prefixes -> Paths] BY <1>1, <1>2, ZenonT(30)
                                         DEF TablesInv, TablesType
  <2>2. srt' \in [Prefixes -> SUBSET NextHops] BY <1>1 DEF TablesInv, TablesType
  <2> QED BY <1>1, <1>3, <2>1, <2>2, ZenonT(30) DEF TablesInv, TablesType
<1>5. NexthopsIndexed' /\ Watched' /\ InUseMarked'
  BY <1>1, <1>3, SameSessions, ZenonT(30)
<1>6. \A p \in ps : p \in Prefixes /\ config[p].kind = "bfd" /\ k \in Uses(config[p])
  BY DEF TablesInv, TablesType, NexthopsIndexed
<1>7. ReachableAnnounced'
  <2> SUFFICES ASSUME NEW q \in Prefixes, NEW j \in srt'[q]
               PROVE  /\ config'[q].kind = "bfd" /\ j \in Uses(config'[q])
                      /\ appl'[q][j] = config'[q].nhs[j]
                      /\ bfd'[j] \notin {"absent", "DOWN"}
    BY DEF ReachableAnnounced
  <2>1. j \in NextHops /\ (j \in srt[q] \/ (q \in ps /\ j = k))
    BY <1>1, ZenonT(30) DEF TablesInv, TablesType
  <2>2. /\ config[q].kind = "bfd" /\ j \in Uses(config[q])
        /\ bfd'[j] \notin {"absent", "DOWN"}
    BY <2>1, <1>3, <1>6, ZenonT(30) DEF TablesInv, ReachableAnnounced
  <2>3. appl'[q][j] = config[q].nhs[j]
    BY <1>1, <2>1, ZenonT(30) DEF TablesInv, ReachableAnnounced
  <2> QED BY <1>1, <2>2, <2>3
<1>8. HeldNotReached'
  <2> SUFFICES ASSUME NEW q \in hold'
               PROVE  /\ config[q].kind = "bfd" /\ srt'[q] = {}
                      /\ appl'[q] \in {NoPaths, config[q].nhs}
    BY <1>1, ZenonT(30) DEF HeldNotReached, NoPaths
  <2> QED BY <1>1, ZenonT(30) DEF TablesInv, TablesType, HeldNotReached
<1> QED BY <1>4, <1>5, <1>7, <1>8 DEF TablesInv

LEMMA StateSet ==
  ASSUME TablesInv, NEW k \in NextHops, NEW st \in States[k] \cup {"none"},
         bfd_state_set_handler(k, st), UNCHANGED interface
  PROVE  TablesInv'
<1> DEFINE v == IF st = "none" THEN "DOWN" ELSE st
<1>1. v \in States[k] \cup {"DOWN"} OBVIOUS
<1>2. CASE bfd[k] = "absent"
  BY <1>2, TablesKept DEF bfd_state_set_handler
<1>3. CASE bfd[k] # "absent"
  <2>1. /\ bfd' = [bfd EXCEPT ![k] = v]
        /\ CASE v = "UP" -> SessionUp(k)
             [] v = "DOWN" -> Drop(nexthop[k] \ hold, k)
             [] OTHER -> UNCHANGED <<config, hold, nexthop, srt, marked, pending,
                                     session, appl>>
    BY <1>3 DEF bfd_state_set_handler
  <2> HIDE DEF v
  <2>2. /\ BfdType' /\ bfd'[k] = v /\ v # "absent"
        /\ \A j \in NextHops \ {k} : bfd'[j] = bfd[j]
        /\ \A j \in NextHops : bfd'[j] = "absent" <=> bfd[j] = "absent"
    BY <1>1, <1>3, <2>1, StateKept, ZenonT(30)
  <2>3. CASE v = "UP" BY <2>1, <2>3, <1>1, <1>3, Upped, ZenonT(30)
  <2>4. CASE v = "DOWN"
    <3>1. Drop(nexthop[k] \ hold, k) BY <2>1, <2>4
    <3>2. nexthop[k] \ hold \in SUBSET nexthop[k] OBVIOUS
    <3> QED BY <3>1, <3>2, <2>2, <1>3, Dropped
  <2>5. CASE v # "UP" /\ v # "DOWN"
    <3>1. UNCHANGED <<config, hold, nexthop, srt, marked, pending, session, appl>>
      BY <2>1, <2>5
    <3>2. NexthopsIndexed' /\ Watched' /\ InUseMarked' BY <2>2, <3>1, SameSessions
    <3>3. TablesType' BY <2>2, <3>1 DEF TablesInv, TablesType
    <3>4. ReachableAnnounced' /\ HeldNotReached'
      BY <2>2, <2>5, <3>1, ZenonT(30)
         DEF TablesInv, TablesType, ReachableAnnounced, HeldNotReached
    <3> QED BY <3>2, <3>3, <3>4 DEF TablesInv
  <2> QED BY <2>3, <2>4, <2>5
<1> QED BY <1>2, <1>3

LEMMA StateDel ==
  ASSUME TablesInv, NEW k \in NextHops, bfd_state_del_handler(k), UNCHANGED interface
  PROVE  TablesInv'
<1>1. Drop(nexthop[k], k) /\ bfd' = bfd BY DEF bfd_state_del_handler
<1>2. BfdType' BY <1>1 DEF TablesInv, TablesType, BfdType
<1> QED BY <1>1, <1>2, Dropped, ZenonT(30)

(***************************************************************************)
(* The process                                                             *)
(***************************************************************************)
\* The rest of TypeOK.
DbType ==
  /\ route \in [Prefixes -> Row] /\ addr \subseteq Intfs
  /\ \A p \in Prefixes : route[p] \in Rows[p] \cup {NoRow}
  /\ state \in [NextHops -> SessionStates]
  /\ \A k \in NextHops : state[k] \in States[k] \cup {"none"}
  /\ routeQ \in [Prefixes -> Seq({"SET", "DEL"})]
  /\ intfQ \in [Intfs -> Seq({"SET", "DEL"})]
  /\ stateQ \in [NextHops -> Seq({"SET", "DEL"})]
  /\ pc \in {"down", "subscribed", "routes", "states", "run"}
  /\ todo \subseteq Prefixes \cup NextHops

\* The local tables are empty until reconciliation starts.
Fresh == pc \in {"down", "subscribed"} => LocalInit

IInv == DbType /\ TablesInv /\ Fresh

LEMMA LocalInitInv ==
  LocalInit /\ session \subseteq NextHops /\ appl \in [Prefixes -> Paths] => TablesInv
<1> SUFFICES ASSUME LocalInit, session \subseteq NextHops, appl \in [Prefixes -> Paths]
             PROVE  TablesInv
  OBVIOUS
<1> USE DEF LocalInit
<1>1. BfdType BY DEF BfdType, SessionStates
<1>2. TablesType BY <1>1, RowFacts DEF TablesType
<1>3. NexthopsIndexed BY RowFacts DEF NexthopsIndexed
<1>4. ReachableAnnounced /\ HeldNotReached BY DEF ReachableAnnounced, HeldNotReached
<1>5. Watched /\ InUseMarked BY DEF Watched, InUseMarked
<1> QED BY <1>2, <1>3, <1>4, <1>5 DEF TablesInv

LEMMA InitInv == Init => IInv
<1> SUFFICES ASSUME Init PROVE IInv OBVIOUS
<1>1. TablesInv
  <2>1. LocalInit /\ session \subseteq NextHops /\ appl \in [Prefixes -> Paths]
    BY RowFacts DEF Init
  <2> QED BY <2>1, LocalInitInv
<1>2. DbType
  <2>1. state \in [NextHops -> SessionStates] /\ \A k \in NextHops : state[k] = "none"
    BY DEF Init, SessionStates
  <2>2. route \in [Prefixes -> Row] /\ \A p \in Prefixes : route[p] = NoRow
    BY RowFacts DEF Init
  <2>3. <<>> \in Seq({"SET", "DEL"}) OBVIOUS
  <2> QED BY <2>1, <2>2, <2>3 DEF Init, DbType
<1> QED BY <1>1, <1>2 DEF IInv, Fresh, Init

LEMMA QueueType ==
  ASSUME NEW S, NEW q \in [S -> Seq({"SET", "DEL"})], NEW x \in S
  PROVE  /\ \A op \in {"SET", "DEL"} :
              Notified(q, x, op) \in [S -> Seq({"SET", "DEL"})]
         /\ q[x] # <<>> => [q EXCEPT ![x] = Tail(@)] \in [S -> Seq({"SET", "DEL"})]
<1>1. \A op \in {"SET", "DEL"} : Post(q[x], op) \in Seq({"SET", "DEL"}) BY DEF Post
<1>2. q[x] # <<>> => Tail(q[x]) \in Seq({"SET", "DEL"}) OBVIOUS
<1> QED BY <1>1, <1>2 DEF Notified

LEMMA RestoredType ==
  ASSUME NEW S, NEW there \in [S -> BOOLEAN]
  PROVE  Restored(there) \in [S -> Seq({"SET", "DEL"})]
<1>1. <<"SET">> \in Seq({"SET", "DEL"}) /\ <<>> \in Seq({"SET", "DEL"}) OBVIOUS
<1> QED BY <1>1, ZenonT(30) DEF Restored

\* A step of the operator or of the agent leaves the tables alone.
LEMMA EnvironmentInv == IInv /\ (Operator \/ Agent) => IInv'
<1> SUFFICES ASSUME IInv, Operator \/ Agent PROVE IInv' OBVIOUS
<1>1. UNCHANGED <<pc, todo, interface, tables>>
  BY ZenonT(30)
     DEF Operator, Agent, WriteRoute, AddAddress, DelAddress, SessionState, SessionGone
<1>2. TablesInv' BY <1>1, TablesKept DEF IInv
<1>3. Fresh' BY <1>1 DEF IInv, Fresh, LocalInit, tables, local
<1>4. ASSUME NEW p \in Prefixes, NEW r \in Rows[p] \cup {NoRow}, WriteRoute(p, r)
      PROVE  DbType'
  <2>1. Op(r) \in {"SET", "DEL"} BY DEF Op
  <2>2. routeQ' \in [Prefixes -> Seq({"SET", "DEL"})]
    BY <1>4, <2>1, QueueType, ZenonT(30) DEF WriteRoute, IInv, DbType
  <2>3. r \in Row BY RowFacts
  <2> QED BY <1>1, <1>4, <2>2, <2>3, ZenonT(30) DEF WriteRoute, IInv, DbType
<1>5. ASSUME NEW i \in Intfs, AddAddress(i) PROVE DbType'
  <2>1. intfQ' \in [Intfs -> Seq({"SET", "DEL"})]
    BY <1>5, QueueType, ZenonT(30) DEF AddAddress, IInv, DbType
  <2> QED BY <1>1, <1>5, <2>1 DEF AddAddress, IInv, DbType
<1>6. ASSUME NEW i \in Intfs, DelAddress(i) PROVE DbType'
  <2>1. intfQ' \in [Intfs -> Seq({"SET", "DEL"})]
    BY <1>6, QueueType, ZenonT(30) DEF DelAddress, IInv, DbType
  <2> QED BY <1>1, <1>6, <2>1 DEF DelAddress, IInv, DbType
<1>7. ASSUME NEW k \in NextHops, SessionGone(k) PROVE DbType'
  <2>1. stateQ' \in [NextHops -> Seq({"SET", "DEL"})]
    BY <1>7, QueueType, ZenonT(30) DEF SessionGone, IInv, DbType
  <2>2. state' = [state EXCEPT ![k] = "none"] /\ "none" \in SessionStates
    BY <1>7 DEF SessionGone, SessionStates
  <2> QED BY <1>1, <1>7, <2>1, <2>2, ZenonT(30)
             DEF SessionGone, operated, IInv, DbType
<1>8. ASSUME NEW k \in NextHops, NEW s \in States[k], SessionState(k, s) PROVE DbType'
  <2>1. stateQ' \in [NextHops -> Seq({"SET", "DEL"})]
    BY <1>8, QueueType DEF SessionState, IInv, DbType
  <2>2. state' = [state EXCEPT ![k] = s] /\ s \in SessionStates
    BY <1>8 DEF SessionState, SessionStates
  <2> QED BY <1>1, <1>8, <2>1, <2>2, ZenonT(30)
             DEF SessionState, operated, IInv, DbType
<1>9. DbType' BY <1>4, <1>5, <1>6, <1>7, <1>8 DEF Operator, Agent
<1> QED BY <1>2, <1>3, <1>9 DEF IInv

\* The end of the process empties the local tables.
LEMMA ExitInv ==
  ASSUME IInv, Exit, session' \subseteq NextHops, appl' \in [Prefixes -> Paths]
  PROVE  IInv'
<1>1. LocalInit' BY DEF Exit, LocalInit
<1>2. (LocalInit /\ session \subseteq NextHops /\ appl \in [Prefixes -> Paths]
         => TablesInv)'
  BY LocalInitInv, PTL
<1>3. TablesInv' BY <1>1, <1>2
<1>4. DbType'
  <2>1. <<>> \in Seq({"SET", "DEL"}) OBVIOUS
  <2> QED BY <2>1, ZenonT(30) DEF Exit, operated, IInv, DbType
<1> QED BY <1>1, <1>3, <1>4 DEF IInv, Fresh

LEMMA StartInv ==
  ASSUME IInv, prepare_selector \/ reconciliation \/ cleanup_local_bfd_table \/ Reconciled
  PROVE  IInv'
<1>1. CASE prepare_selector
  <2>1. TablesInv' BY <1>1, TablesKept DEF prepare_selector, IInv
  <2>2. Fresh' BY <1>1, ZenonT(30)
                  DEF prepare_selector, IInv, Fresh, LocalInit, tables, local
  <2>3. /\ [p \in Prefixes |-> route[p] # NoRow] \in [Prefixes -> BOOLEAN]
        /\ [i \in Intfs |-> i \in addr] \in [Intfs -> BOOLEAN]
        /\ [k \in NextHops |-> state[k] # "none"] \in [NextHops -> BOOLEAN]
    OBVIOUS
  <2>4. /\ routeQ' \in [Prefixes -> Seq({"SET", "DEL"})]
        /\ intfQ' \in [Intfs -> Seq({"SET", "DEL"})]
        /\ stateQ' \in [NextHops -> Seq({"SET", "DEL"})]
    BY <1>1, <2>3, RestoredType, ZenonT(30) DEF prepare_selector
  <2>5. DbType' BY <1>1, <2>4, ZenonT(30)
                   DEF prepare_selector, operated, IInv, DbType
  <2> QED BY <2>1, <2>2, <2>5 DEF IInv
<1>2. CASE reconciliation
  <2>1. /\ LocalInit /\ pc' = "routes" /\ interface' = addr
        /\ bfd' = [k \in NextHops |-> IF k \in session THEN "new" ELSE "absent"]
        /\ UNCHANGED <<session, appl, config, hold, nexthop, srt, marked, pending>>
    BY <1>2 DEF reconciliation, IInv, Fresh
  <2>2. DbType' BY <1>2, ZenonT(30)
                   DEF reconciliation, operated, queues, IInv, DbType
  <2>3. BfdType' BY <2>1 DEF BfdType, SessionStates
  <2>4. TablesType' BY <2>1, <2>3, ZenonT(30)
                       DEF IInv, DbType, TablesInv, TablesType
  <2>5. NexthopsIndexed' BY <2>1 DEF IInv, TablesInv, NexthopsIndexed
  <2>6. HeldNotReached' /\ ReachableAnnounced'
    BY <2>1, ZenonT(30) DEF LocalInit, HeldNotReached, ReachableAnnounced
  <2>7. Watched' /\ InUseMarked' BY <2>1 DEF LocalInit, Watched, InUseMarked
  <2> QED BY <2>1, <2>2, <2>4, <2>5, <2>6, <2>7 DEF IInv, TablesInv, Fresh
<1>3. CASE cleanup_local_bfd_table
  <2>1. /\ bfd' = [k \in NextHops |-> IF k \in marked THEN bfd[k] ELSE "absent"]
        /\ pc' = "states"
        /\ UNCHANGED <<interface, session, appl, config, hold, nexthop, srt, marked,
                       pending>>
    BY <1>3 DEF cleanup_local_bfd_table
  <2>2. DbType' BY <1>3, ZenonT(30)
                   DEF cleanup_local_bfd_table, operated, queues, IInv, DbType
  <2>3. \A k \in NextHops : nexthop[k] # {} => bfd'[k] = bfd[k]
    BY <2>1 DEF IInv, TablesInv, InUseMarked
  <2>4. BfdType'
    <3>1. \A k \in NextHops : bfd'[k] \in {"absent", bfd[k]} BY <2>1
    <3> QED BY <2>1, <3>1, ZenonT(30)
               DEF IInv, TablesInv, TablesType, BfdType, SessionStates
  <2>5. TablesType' BY <2>1, <2>4 DEF IInv, TablesInv, TablesType
  <2>6. NexthopsIndexed' /\ HeldNotReached'
    BY <2>1 DEF IInv, TablesInv, NexthopsIndexed, HeldNotReached
  <2>7. ReachableAnnounced'
    <3>1. \A p \in Prefixes : \A k \in srt[p] : k \in NextHops /\ nexthop[k] # {}
      BY DEF IInv, TablesInv, TablesType, ReachableAnnounced, NexthopsIndexed
    <3>2. UNCHANGED <<srt, config, appl>> BY <2>1
    <3>3. \A p \in Prefixes : \A k \in srt[p] : bfd'[k] \notin {"absent", "DOWN"}
      BY <2>3, <3>1 DEF IInv, TablesInv, ReachableAnnounced
    <3> QED BY <3>2, <3>3 DEF IInv, TablesInv, ReachableAnnounced
  <2>8. Watched' BY <2>1, <2>3, ZenonT(30) DEF IInv, TablesInv, Watched
  <2>9. InUseMarked' BY <2>1, ZenonT(30) DEF InUseMarked
  <2> QED BY <2>1, <2>2, <2>5, <2>6, <2>7, <2>8, <2>9 DEF IInv, TablesInv, Fresh
<1>4. CASE Reconciled
  <2>1. TablesInv' BY <1>4, TablesKept DEF Reconciled, IInv
  <2> QED BY <1>4, <2>1, ZenonT(30)
             DEF Reconciled, operated, queues, IInv, DbType, Fresh
<1> QED BY <1>1, <1>2, <1>3, <1>4

LEMMA HandlerInv ==
  /\ \A p \in Prefixes :
       IInv /\ (RestoreRoute(p) \/ static_route_callback(p)) => IInv'
  /\ \A k \in NextHops : IInv /\ (RestoreState(k) \/ bfd_state_callback(k)) => IInv'
  /\ \A i \in Intfs : IInv /\ interface_callback(i) => IInv'
<1>1. ASSUME NEW p \in Prefixes, IInv, RestoreRoute(p) PROVE IInv'
  <2>1. TablesInv' BY <1>1, SetHandler DEF RestoreRoute, IInv, DbType
  <2> QED BY <1>1, <2>1 DEF RestoreRoute, operated, queues, IInv, DbType, Fresh
<1>2. ASSUME NEW p \in Prefixes, IInv, static_route_callback(p) PROVE IInv'
  <2>1. TablesInv'
    BY <1>2, SetHandler, DelHandler, ZenonT(30)
       DEF static_route_callback, IInv, DbType
  <2>2. routeQ' \in [Prefixes -> Seq({"SET", "DEL"})]
    BY <1>2, QueueType DEF static_route_callback, IInv, DbType
  <2> QED BY <1>2, <2>1, <2>2 DEF static_route_callback, operated, IInv, DbType, Fresh
<1>3. ASSUME NEW k \in NextHops, IInv, RestoreState(k) PROVE IInv'
  <2>1. TablesInv' BY <1>3, StateSet DEF RestoreState, IInv, DbType
  <2> QED BY <1>3, <2>1, ZenonT(30)
             DEF RestoreState, operated, queues, IInv, DbType, Fresh
<1>4. ASSUME NEW k \in NextHops, IInv, bfd_state_callback(k) PROVE IInv'
  <2>1. TablesInv'
    BY <1>4, StateSet, StateDel, TablesKept, ZenonT(30)
       DEF bfd_state_callback, IInv, DbType
  <2>2. stateQ' \in [NextHops -> Seq({"SET", "DEL"})]
    BY <1>4, QueueType DEF bfd_state_callback, IInv, DbType
  <2> QED BY <1>4, <2>1, <2>2 DEF bfd_state_callback, operated, IInv, DbType, Fresh
<1>5. ASSUME NEW i \in Intfs, IInv, interface_callback(i) PROVE IInv'
  <2>1. TablesInv'
    BY <1>5, InterfaceSet, InterfaceDel, TablesKept DEF interface_callback, IInv
  <2>2. intfQ' \in [Intfs -> Seq({"SET", "DEL"})]
    BY <1>5, QueueType DEF interface_callback, IInv, DbType
  <2> QED BY <1>5, <2>1, <2>2, ZenonT(30)
             DEF interface_callback, operated, IInv, DbType, Fresh
<1> QED BY <1>1, <1>2, <1>3, <1>4, <1>5

LEMMA NextInv == IInv /\ [Next]_vars => IInv'
<1> SUFFICES ASSUME IInv, [Next]_vars PROVE IInv' OBVIOUS
<1>1. CASE UNCHANGED vars
  <2>1. TablesInv' BY <1>1, TablesKept DEF vars, IInv
  <2>2. DbType' BY <1>1, ZenonT(30) DEF vars, operated, queues, IInv, DbType
  <2>3. Fresh' BY <1>1 DEF vars, tables, local, IInv, Fresh, LocalInit
  <2> QED BY <2>1, <2>2, <2>3 DEF IInv
<1>2. CASE Operator \/ Agent BY <1>2, EnvironmentInv
<1>3. CASE prepare_selector \/ reconciliation \/ cleanup_local_bfd_table \/ Reconciled
  BY <1>3, StartInv
<1>4. CASE Stop
  <2>1. session' \subseteq NextHops /\ appl' \in [Prefixes -> Paths]
    BY <1>4 DEF Stop, IInv, TablesInv, TablesType
  <2> QED BY <1>4, <2>1, ExitInv DEF Stop
<1>5. ASSUME NEW p \in Prefixes, TypeError(p) PROVE IInv'
  <2>1. session' \subseteq NextHops /\ appl' \in [Prefixes -> Paths]
    BY <1>5, RowFacts, ZenonT(30) DEF TypeError, IInv, TablesInv, TablesType
  <2> QED BY <1>5, <2>1, ExitInv, ZenonT(30) DEF TypeError
<1>6. ASSUME NEW p \in Prefixes, RestoreRoute(p) \/ static_route_callback(p) PROVE IInv'
  BY <1>6, HandlerInv
<1>7. ASSUME NEW k \in NextHops, RestoreState(k) \/ bfd_state_callback(k) PROVE IInv'
  BY <1>7, HandlerInv
<1>8. ASSUME NEW i \in Intfs, interface_callback(i) PROVE IInv' BY <1>8, HandlerInv
<1> QED BY <1>1, <1>2, <1>3, <1>4, <1>5, <1>6, <1>7, <1>8 DEF Next, Daemon

LEMMA Inductive == Spec => []IInv
  BY InitInv, NextInv, PTL DEF Spec

\* Every variable keeps its type, for any rows, session states and bound, and
\* no row that is refused is kept.
THEOREM TypeCorrect == Spec => []TypeOK
<1>1. IInv => TypeOK
  BY ZenonT(30) DEF IInv, DbType, TablesInv, TablesType, BfdType, TypeOK
<1> QED BY <1>1, Inductive, PTL

\* The next-hop table lists exactly the BFD-enabled routes through each next
\* hop.
THEOREM Indexed == Spec => []NexthopsIndexed
<1>1. IInv => NexthopsIndexed BY DEF IInv, TablesInv
<1> QED BY <1>1, Inductive, PTL

\* The routes on hold are BFD-enabled, have no reachable next hop, and are
\* announced through all of their next hops or not at all.
THEOREM Held == Spec => []HeldNotReached
<1>1. IInv => HeldNotReached BY DEF IInv, TablesInv
<1> QED BY <1>1, Inductive, PTL

\* Every next hop of a BFD-enabled route has a session or a request that waits
\* for an address of an interface, and no request waits for one that is known.
THEOREM NextHopsWatched == Spec => []Watched
<1>1. IInv => Watched BY DEF IInv, TablesInv
<1> QED BY <1>1, Inductive, PTL

\* Every reachable next hop of a route is in its row of the APPL_DB, and has a
\* session that was not last reported down.
THEOREM Announced == Spec => []ReachableAnnounced
<1>1. IInv => ReachableAnnounced BY DEF IInv, TablesInv
<1> QED BY <1>1, Inductive, PTL

(***************************************************************************)
(* The daemon implements BfdRoute                                          *)
(***************************************************************************)
LEMMA Unmoved ==
  ASSUME NEW q \in Prefixes, config'[q] = config[q], srt'[q] = srt[q],
         appl'[q] = appl[q], q \in hold' <=> q \in hold
  PROVE  Routes!Step(q)
  BY ZenonT(30) DEF Routes!Step, Routes!Same, Mode, Shown

LEMMA AllUnmoved ==
  ASSUME UNCHANGED <<config, hold, srt, appl>>, NEW q \in Prefixes
  PROVE  Routes!Step(q)
  BY Unmoved, ZenonT(30)

LEMMA UnmovedTables ==
  ASSUME UNCHANGED tables, NEW q \in Prefixes
  PROVE  Routes!Step(q)
  BY AllUnmoved DEF tables, local

\* A route that is not BFD-enabled has no reachable next hop.
LEMMA OffUnreached ==
  ASSUME TablesInv, NEW q \in Prefixes, config[q].kind # "bfd"
  PROVE  srt[q] = {} /\ q \notin hold
  BY DEF TablesInv, TablesType, ReachableAnnounced, HeldNotReached

\* The route is deleted or no longer BFD-enabled, or the process ends.
LEMMA DisableStep ==
  ASSUME NEW q \in Prefixes, config'[q].kind # "bfd", srt'[q] = {},
         appl'[q] = appl[q] \/ appl'[q] = NoPaths
  PROVE  Routes!Step(q)
<1>1. Mode'[q] = "off" BY DEF Mode
<1>2. Shown'[q] = Shown[q] \/ Shown'[q] = {} BY DEF Shown, NoPaths
<1> QED BY <1>1, <1>2, ZenonT(30) DEF Routes!Step, Routes!Disable

LEMMA WithdrawStep ==
  ASSUME TablesInv, NEW p \in Prefixes, NEW r \in Row, r.kind # "bfd",
         IF config[p].kind = "bfd" THEN Withdraw(p)
         ELSE UNCHANGED <<nexthop, bfd, marked, session, appl, srt>>,
         config' = [config EXCEPT ![p] = r], hold' = hold \ {p},
         NEW q \in Prefixes
  PROVE  Routes!Step(q)
<1>1. CASE q = p
  <2>1. config'[q].kind # "bfd" BY <1>1 DEF TablesInv, TablesType
  <2>2. srt'[q] = {} /\ (appl'[q] = appl[q] \/ appl'[q] = NoPaths)
    BY <1>1, OffUnreached DEF Withdraw, TablesInv, TablesType
  <2> QED BY <2>1, <2>2, DisableStep
<1>2. CASE q # p
  <2>1. config'[q] = config[q] /\ srt'[q] = srt[q] /\ appl'[q] = appl[q]
    BY <1>2 DEF Withdraw, TablesInv, TablesType
  <2> QED BY <1>2, <2>1, Unmoved, ZenonT(30)
<1> QED BY <1>1, <1>2

LEMMA UnmatchedStep ==
  ASSUME TablesInv, NEW p \in Prefixes, NEW r \in Rows[p], r.kind = "unmatched",
         SetUnmatched(p, r), NEW q \in Prefixes
  PROVE  Routes!Step(q)
<1>1. UNCHANGED <<config, hold, srt>> BY DEF SetUnmatched, local
<1>2. appl' = appl \/ (config[p].kind = "plain" /\ appl' = [appl EXCEPT ![p] = r.nhs])
  BY DEF SetUnmatched, Toggled
<1>3. CASE appl'[q] = appl[q] BY <1>1, <1>3, Unmoved
<1>4. CASE appl'[q] # appl[q]
  <2>1. q = p /\ config[p].kind = "plain" /\ appl'[q] = r.nhs
    BY <1>2, <1>4 DEF TablesInv, TablesType
  <2>2. Shown'[q] # {}
    <3>1. Shown'[q] = Uses(r) BY <2>1 DEF Shown, Uses
    <3> QED BY <3>1, RowFacts, ZenonT(30)
  <2>3. Mode[q] = "off" /\ Mode'[q] = "off" BY <1>1, <2>1 DEF Mode
  <2> QED BY <1>1, <2>2, <2>3 DEF Routes!Step, Routes!Refuse
<1> QED BY <1>3, <1>4, ZenonT(30)

LEMMA BfdStep ==
  ASSUME TablesInv, TablesInv', NEW p \in Prefixes, NEW r \in Rows[p], r.kind = "bfd",
         SetBfd(p, r), NEW q \in Prefixes
  PROVE  Routes!Step(q)
<1>1. PICK removed, up :
        /\ config' = [config EXCEPT ![p] = r]
        /\ srt' = [srt EXCEPT ![p] = (srt[p] \ removed) \cup up]
        /\ hold' = IF config[p].kind = "plain" /\ up = {} THEN hold \cup {p}
                   ELSE hold \ {p}
        /\ appl' = IF up = {} THEN Toggled(p, r)
                   ELSE [appl EXCEPT ![p] =
                           reconstruct_static_route_config(r, (srt[p] \ removed) \cup up)]
  BY ZenonT(30) DEF SetBfd
<1> DEFINE reachable == (srt[p] \ removed) \cup up
<1>2. CASE q # p
  <2>1. config'[q] = config[q] /\ srt'[q] = srt[q] /\ appl'[q] = appl[q]
    BY <1>1, <1>2, ZenonT(30) DEF Toggled, TablesInv, TablesType
  <2> QED BY <1>1, <1>2, <2>1, Unmoved, ZenonT(30)
<1>3. CASE q = p
  <2>1. config'[p] = r /\ srt'[p] = reachable BY <1>1, ZenonT(30)
                                                 DEF TablesInv, TablesType
  <2>2. Mode'[p] = IF reachable # {} THEN "on" ELSE IF p \in hold' THEN "hold" ELSE "wait"
    BY <2>1 DEF Mode
  <2>3. reachable \subseteq NextHops /\ \A k \in reachable : r.nhs[k] # None
    BY <2>1, ZenonT(30) DEF TablesInv, TablesType, ReachableAnnounced, Uses
  <2>4. CASE up # {}
    <3>1. appl'[p] = reconstruct_static_route_config(r, reachable)
      BY <1>1, <2>4, ZenonT(30) DEF TablesInv, TablesType
    <3>2. Shown'[p] = reachable
      BY <2>3, <3>1 DEF Shown, reconstruct_static_route_config
    <3>3. reachable # {} /\ Mode'[p] = "on" BY <2>2, <2>4
    <3> QED BY <1>3, <2>1, <3>2, <3>3, ZenonT(30)
            DEF Routes!Step, Routes!Enable, Routes!Change, Routes!Settle
  <2>5. CASE up = {} /\ config[p].kind = "plain"
    <3>1. srt[p] = {} /\ Mode[p] = "off" BY <2>5, OffUnreached DEF Mode
    <3>2. reachable = {} /\ Mode'[p] = "hold" BY <1>1, <2>2, <2>5, <3>1,
                                                 ZenonT(30)
    <3>3. appl'[p] = r.nhs BY <1>1, <2>5, ZenonT(30)
                              DEF Toggled, TablesInv, TablesType
    <3>4. Shown'[p] # {}
      <4>1. Shown'[p] = Uses(r) BY <3>3 DEF Shown, Uses
      <4> QED BY <4>1, RowFacts, ZenonT(30)
    <3> QED BY <1>3, <2>1, <3>1, <3>2, <3>4, ZenonT(30)
               DEF Routes!Step, Routes!Enable
  <2>6. CASE up = {} /\ config[p].kind # "plain"
    <3>1. Shown'[p] = Shown[p] BY <1>1, <2>6, ZenonT(30) DEF Toggled, Shown
    <3>2. p \notin hold' /\ reachable \subseteq srt[p] BY <1>1, <2>6,
                                                          ZenonT(30)
    <3>3. Mode'[p] = IF reachable = {} THEN "wait" ELSE "on" BY <2>2, <3>2
    <3>4. CASE config[p].kind = "bfd"
      <4>1. Mode[p] # "off" BY <3>4 DEF Mode
      <4> QED BY <1>3, <2>1, <3>1, <3>2, <3>3, <4>1, ZenonT(30)
              DEF Routes!Step, Routes!Change, Routes!Settle
    <3>5. CASE config[p].kind # "bfd"
      <4>1. srt[p] = {} /\ Mode[p] = "off" BY <3>5, OffUnreached DEF Mode
      <4>2. reachable = {} /\ Mode'[p] = "wait" BY <3>2, <3>3, <4>1
      <4> QED BY <1>3, <2>1, <3>1, <4>1, <4>2, ZenonT(30)
                 DEF Routes!Step, Routes!Enable
    <3> QED BY <3>4, <3>5
  <2> QED BY <2>4, <2>5, <2>6, ZenonT(30)
<1> QED BY <1>2, <1>3

LEMMA SetStep ==
  ASSUME TablesInv, TablesInv', NEW p \in Prefixes, NEW r \in Rows[p] \cup {NoRow},
         static_route_set_handler(p, r), NEW q \in Prefixes
  PROVE  Routes!Step(q)
<1>1. r \in Row /\ (r.kind # "none" => r \in Rows[p]) BY RowFacts
<1>2. CASE r.kind = "none" /\ UNCHANGED tables BY <1>2, UnmovedTables
<1>3. CASE r.kind = "plain" /\ SetPlain(p, r) BY <1>1, <1>3, WithdrawStep, ZenonT(30)
                                                 DEF SetPlain
<1>4. CASE r.kind = "unmatched" /\ SetUnmatched(p, r) BY <1>1, <1>4, UnmatchedStep
<1>5. CASE r.kind = "bfd" /\ SetBfd(p, r) BY <1>1, <1>5, BfdStep
<1> QED BY <1>2, <1>3, <1>4, <1>5 DEF static_route_set_handler

LEMMA DropStep ==
  ASSUME TablesInv, NEW k \in NextHops, NEW ps \in SUBSET nexthop[k], Drop(ps, k),
         NEW q \in Prefixes
  PROVE  Routes!Step(q)
<1>1. CASE q \notin ps BY <1>1, Unmoved, ZenonT(30) DEF Drop
<1>2. CASE q \in ps
  <2>1. /\ srt'[q] = srt[q] \ {k} /\ UNCHANGED <<config, hold>>
        /\ appl'[q] = reconstruct_static_route_config(config[q], srt[q] \ {k})
    BY <1>2, ZenonT(30) DEF Drop
  <2>2. config[q].kind = "bfd" BY <1>2 DEF TablesInv, NexthopsIndexed
  <2>3. srt[q] \subseteq NextHops /\ \A j \in srt[q] : config[q].nhs[j] # None
    BY ZenonT(30) DEF TablesInv, TablesType, ReachableAnnounced, Uses
  <2>4. Shown'[q] = srt[q] \ {k}
    BY <2>1, <2>3, ZenonT(30) DEF Shown, reconstruct_static_route_config
  <2>5. Mode[q] # "off" /\ (Mode[q] = "hold" <=> srt[q] = {} /\ q \in hold)
    BY <2>2 DEF Mode
  <2>6. q \in hold => srt[q] = {} BY DEF TablesInv, HeldNotReached
  <2>7. IF Mode[q] = "hold" THEN Mode'[q] = "hold"
        ELSE Mode'[q] = IF srt'[q] = {} THEN "wait" ELSE "on"
    BY <2>1, <2>2, <2>5, <2>6 DEF Mode
  <2> QED BY <2>1, <2>4, <2>5, <2>7, ZenonT(30)
             DEF Routes!Step, Routes!Lost, Routes!Settle
<1> QED BY <1>1, <1>2

LEMMA UpStep ==
  ASSUME TablesInv, NEW k \in NextHops, SessionUp(k), NEW q \in Prefixes
  PROVE  Routes!Step(q)
<1>1. CASE q \notin nexthop[k] \/ k \in srt[q] BY <1>1, Unmoved, ZenonT(30)
                                                  DEF SessionUp
<1>2. CASE q \in nexthop[k] /\ k \notin srt[q]
  <2>1. /\ srt'[q] = srt[q] \cup {k} /\ UNCHANGED config
        /\ appl'[q] = reconstruct_static_route_config(config[q], srt[q] \cup {k})
    BY <1>2, ZenonT(30) DEF SessionUp
  <2>2. config[q].kind = "bfd" /\ config[q].nhs[k] # None
    BY <1>2 DEF TablesInv, NexthopsIndexed, Uses
  <2>3. srt[q] \subseteq NextHops /\ \A j \in srt[q] : config[q].nhs[j] # None
    BY DEF TablesInv, TablesType, ReachableAnnounced, Uses
  <2>4. Shown'[q] = srt[q] \cup {k}
    BY <2>1, <2>2, <2>3, ZenonT(30) DEF Shown, reconstruct_static_route_config
  <2>5. Mode[q] # "off" /\ Mode'[q] = "on" BY <2>1, <2>2 DEF Mode
  <2> QED BY <1>2, <2>1, <2>4, <2>5 DEF Routes!Step, Routes!Reached
<1> QED BY <1>1, <1>2

LEMMA StateStep ==
  ASSUME TablesInv, NEW k \in NextHops, NEW st, bfd_state_set_handler(k, st),
         NEW q \in Prefixes
  PROVE  Routes!Step(q)
<1> DEFINE v == IF st = "none" THEN "DOWN" ELSE st
<1>1. CASE bfd[k] = "absent" BY <1>1, UnmovedTables, ZenonT(30)
                                DEF bfd_state_set_handler
<1>2. CASE bfd[k] # "absent"
  <2>1. CASE v = "UP" BY <1>2, <2>1, UpStep DEF bfd_state_set_handler
  <2>2. CASE v = "DOWN"
    <3>1. Drop(nexthop[k] \ hold, k) BY <1>2, <2>2 DEF bfd_state_set_handler
    <3>2. nexthop[k] \ hold \in SUBSET nexthop[k] OBVIOUS
    <3> QED BY <3>1, <3>2, DropStep
  <2>3. CASE v # "UP" /\ v # "DOWN"
    BY <1>2, <2>3, AllUnmoved DEF bfd_state_set_handler
  <2> QED BY <2>1, <2>2, <2>3
<1> QED BY <1>1, <1>2

LEMMA ExitStep ==
  ASSUME Exit, NEW q \in Prefixes, appl'[q] = appl[q] \/ appl'[q] = NoPaths
  PROVE  Routes!Step(q)
  BY DisableStep, RowFacts, ZenonT(30) DEF Exit

LEMMA NextStep ==
  ASSUME IInv, IInv', [Next]_vars, NEW q \in Prefixes
  PROVE  Routes!Step(q)
<1>1. CASE UNCHANGED vars BY <1>1, UnmovedTables DEF vars
<1>2. CASE Operator \/ Agent
  BY <1>2, UnmovedTables, ZenonT(30)
     DEF Operator, Agent, WriteRoute, AddAddress, DelAddress,
                             SessionState, SessionGone
<1>3. CASE prepare_selector \/ Reconciled
  BY <1>3, UnmovedTables, ZenonT(30) DEF prepare_selector, Reconciled
<1>4. CASE reconciliation \/ cleanup_local_bfd_table
  BY <1>4, AllUnmoved DEF reconciliation, cleanup_local_bfd_table
<1>5. CASE Stop BY <1>5, ExitStep DEF Stop
<1>6. ASSUME NEW p \in Prefixes, TypeError(p) PROVE Routes!Step(q)
  <2>1. appl'[q] = appl[q] \/ appl'[q] = NoPaths
    BY <1>6, ZenonT(30) DEF TypeError, IInv, TablesInv, TablesType
  <2> QED BY <1>6, <2>1, ExitStep, ZenonT(30) DEF TypeError
<1>7. ASSUME NEW p \in Prefixes, RestoreRoute(p) PROVE Routes!Step(q)
  BY <1>7, SetStep, ZenonT(30) DEF RestoreRoute, IInv, DbType
<1>8. ASSUME NEW p \in Prefixes, static_route_callback(p) PROVE Routes!Step(q)
  <2>1. CASE static_route_set_handler(p, route[p]) BY <2>1, SetStep, ZenonT(30)
                                                      DEF IInv, DbType
  <2>2. CASE static_route_del_handler(p)
    BY <2>2, WithdrawStep, RowFacts, ZenonT(30)
       DEF static_route_del_handler, IInv
  <2> QED BY <1>8, <2>1, <2>2 DEF static_route_callback
<1>9. ASSUME NEW k \in NextHops, RestoreState(k) PROVE Routes!Step(q)
  BY <1>9, StateStep DEF RestoreState, IInv
<1>10. ASSUME NEW k \in NextHops, bfd_state_callback(k) PROVE Routes!Step(q)
  <2>1. CASE bfd_state_del_handler(k)
    <3>1. nexthop[k] \in SUBSET nexthop[k] OBVIOUS
    <3> QED BY <2>1, <3>1, DropStep DEF bfd_state_del_handler, IInv
  <2>2. CASE bfd_state_set_handler(k, state[k]) BY <2>2, StateStep DEF IInv
  <2>3. CASE UNCHANGED tables BY <2>3, UnmovedTables
  <2> QED BY <1>10, <2>1, <2>2, <2>3 DEF bfd_state_callback
<1>11. ASSUME NEW i \in Intfs, interface_callback(i) PROVE Routes!Step(q)
  <2>1. UNCHANGED <<config, hold, srt, appl>>
    BY <1>11 DEF interface_callback, interface_set_handler, interface_del_handler,
                 tables, local
  <2> QED BY <2>1, AllUnmoved
<1> QED BY <1>1, <1>2, <1>3, <1>4, <1>5, <1>6, <1>7, <1>8, <1>9, <1>10, <1>11
        DEF Next, Daemon

\* The daemon implements BfdRoute for any number of routes that share any
\* sessions: every handler, restart and crash is, for each route, a step of
\* its life cycle or none.
THEOREM Refines == Spec => RouteLifeCycle
<1>1. Init => Routes!Init
  <2> SUFFICES ASSUME Init PROVE Routes!Init OBVIOUS
  <2>1. Mode = [p \in Prefixes |-> "off"]
    BY RowFacts, ZenonT(30) DEF Init, LocalInit, Mode
  <2>2. Shown = [p \in Prefixes |-> {}] BY DEF Init, Shown, NoPaths
  <2> QED BY <2>1, <2>2 DEF Routes!Init, Init, LocalInit
<1>2. IInv /\ IInv' /\ [Next]_vars => Routes!Next
  <2> SUFFICES ASSUME IInv, IInv', [Next]_vars PROVE Routes!Next OBVIOUS
  <2>1. Mode' \in [Prefixes -> {"off", "wait", "hold", "on"}] BY DEF Mode
  <2>2. \A q \in Prefixes : Routes!Step(q) BY NextStep
  <2> QED BY <2>1, <2>2 DEF Routes!Next
<1> QED BY <1>1, <1>2, Inductive, PTL DEF Spec, RouteLifeCycle, Routes!Spec
=============================================================================
