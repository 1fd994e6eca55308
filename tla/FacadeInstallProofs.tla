------------------------ MODULE FacadeInstallProofs ------------------------
(***************************************************************************)
(* Theorems of FacadeInstall, for any number of connections and releases.  *)
(***************************************************************************)
EXTENDS FacadeInstall, TLAPS

\* Unless taking it failed, who is at work under the lock holds it.
HoldInv == ~Failed({"lock"}) => \A c \in Conns : pc[c] \in Locked => lock = c

\* A role without rights is turned away at the first batch.
AdminInv == \A c \in Conns : pc[c] \in {"ide", "metadata", "marker", "grants"} => admin[c]

\* The marker is in a table of the dbsaci schema.
TableInv == db.marker # 0 => "dbsaci" \in db.helpers

\* Who gets as far as the installation has made the dbms_lob schema, or found the
\* views of somebody who had.
LobInv ==
  ~Failed({"lob"}) =>
    /\ db.catalog # 0 => "lob" \in db.helpers
    /\ \A c \in Conns : admin[c] /\ pc[c] \in {"check", "lock"} \cup Locked => "lob" \in db.helpers

\* What a marker vouches for is open, or about to be.
OpenInv ==
  /\ db.marker # 0 /\ ~Failed({"marker", "grants", "persistent", "lob"})
  /\ \A c \in Conns : pc[c] # "grants"
  => {"sys", "metadata", "dbsaci", "lob"} \subseteq db.granted

\* The batches done so far are those of the version that goes on.
InStage(c) ==
  /\ pc[c] \in {"ide", "metadata", "marker"} => db.catalog = version[c]
  /\ pc[c] \in {"metadata", "marker"} => db.ide = version[c]
  /\ pc[c] = "marker" => db.metadata = version[c]

\* With one release about, nothing of another is ever installed.
OneRelease == \A c, d \in Conns : version[c] = version[d]

ReleaseInv ==
  OneRelease => \A c \in Conns :
    /\ db.catalog \in {0, version[c]} /\ db.ide \in {0, version[c]}
    /\ db.metadata \in {0, version[c]} /\ db.marker \in {0, version[c]}
    /\ InStage(c)
    /\ db.marker # 0 => db.catalog = version[c] /\ db.ide = version[c] /\ db.metadata = version[c]

\* With several, the one that installs is alone unless the lock failed, and the
\* marker is right again when it is done.
OrderInv ==
  ~Failed(Installing) /\ ~Failed({"lock"}) =>
    /\ \A c \in Conns : InStage(c)
    /\ db.marker # 0 /\ (\A c \in Conns : pc[c] \notin {"ide", "metadata", "marker"}) =>
         db.catalog = db.marker /\ db.ide = db.marker /\ db.metadata = db.marker

Inv == /\ TypeOK /\ HoldInv /\ AdminInv /\ TableInv /\ LobInv /\ OpenInv
       /\ NoNeedlessInstall /\ ReleaseInv /\ OrderInv

\* A step that fails is remembered, and so are those that failed before it.
LEMMA FaultCounts ==
  ASSUME NEW c, NEW S, Fault(c)
  PROVE  /\ pc[c] \in S => Failed(S)'
         /\ Failed(S) => Failed(S)'
<1> DEFINE failure == [step |-> pc[c], conn |-> c]
<1>1. failure \in faults' /\ failure.step = pc[c]
  BY DEF Fault
<1>2. faults \subseteq faults'
  BY DEF Fault
<1> QED BY <1>1, <1>2 DEF Failed

\* Nothing fails later that would not count.
LEMMA NothingFails ==
  ASSUME NEW S, UNCHANGED faults
  PROVE  Failed(S) <=> Failed(S)'
BY DEF Failed

\* A step of a connection keeps the types, and the lock with one at work under it.
LEMMA TypeStep ==
  ASSUME TypeOK, NEW c \in Conns, Advance(c) \/ Die(c)
  PROVE  TypeOK'
<1>1. CASE Start(c)
  BY <1>1, FacadeAssumption
     DEF Start, Goto, Fault, TypeOK, Steps, Locked, Installing, Ended, Helpers
<1>2. CASE Probe(c)
  BY <1>2, FacadeAssumption
     DEF Probe, Goto, TypeOK, Steps, Locked, Installing, Ended, Helpers
<1>3. CASE Persistent(c)
  BY <1>3, FacadeAssumption
     DEF Persistent, Batch, Goto, Fault, Adds, TypeOK, Steps, Locked, Installing, Ended, Helpers
<1>4. CASE Context(c)
  BY <1>4, FacadeAssumption
     DEF Context, Batch, Goto, Fault, Adds, TypeOK, Steps, Locked, Installing, Ended, Helpers
<1>5. CASE Lob(c)
  BY <1>5, FacadeAssumption
     DEF Lob, Batch, Goto, Fault, Adds, TypeOK, Steps, Locked, Installing, Ended, Helpers
<1>6. CASE Check(c)
  BY <1>6, FacadeAssumption
     DEF Check, Goto, TypeOK, Steps, Locked, Installing, Ended, Helpers
<1>7. CASE TakeLock(c)
  BY <1>7, FacadeAssumption
     DEF TakeLock, Goto, Fault, TypeOK, Steps, Locked, Installing, Ended, Helpers
<1>8. CASE Recheck(c)
  BY <1>8, FacadeAssumption
     DEF Recheck, Goto, TypeOK, Steps, Locked, Installing, Ended, Helpers
<1>9. CASE Catalog(c)
  BY <1>9, FacadeAssumption
     DEF Catalog, Batch, Goto, Fault, TypeOK, Steps, Locked, Installing, Ended, Helpers
<1>10. CASE Ide(c)
  BY <1>10, FacadeAssumption
     DEF Ide, Batch, Goto, Fault, TypeOK, Steps, Locked, Installing, Ended, Helpers
<1>11. CASE Metadata(c)
  BY <1>11, FacadeAssumption
     DEF Metadata, Batch, Goto, Fault, TypeOK, Steps, Locked, Installing, Ended, Helpers
<1>12. CASE Marker(c)
  BY <1>12, FacadeAssumption
     DEF Marker, Batch, Goto, Fault, TypeOK, Steps, Locked, Installing, Ended, Helpers
<1>13. CASE Grants(c)
  BY <1>13, FacadeAssumption
     DEF Grants, Batch, Goto, Fault, TypeOK, Steps, Locked, Installing, Ended, Helpers
<1>14. CASE Unlock(c)
  BY <1>14, FacadeAssumption
     DEF Unlock, Goto, TypeOK, Steps, Locked, Installing, Ended, Helpers
<1>15. CASE Session(c)
  BY <1>15, FacadeAssumption
     DEF Session, Goto, TypeOK, Steps, Locked, Installing, Ended, Helpers
<1>16. CASE Die(c)
  BY <1>16, FacadeAssumption
     DEF Die, Goto, Fault, TypeOK, Steps, Locked, Installing, Ended, Helpers
<1> QED BY <1>1, <1>2, <1>3, <1>4, <1>5, <1>6, <1>7, <1>8, <1>9, <1>10, <1>11, <1>12, <1>13, <1>14, <1>15, <1>16 DEF Advance

\* It takes the lock only when nobody is at work under it.
LEMMA HoldStep ==
  ASSUME TypeOK, HoldInv, NEW c \in Conns, Advance(c) \/ Die(c)
  PROVE  HoldInv'
<1>1. CASE Start(c)
  BY <1>1
     DEF Start, Goto, Fault, TypeOK, HoldInv, Failed, Locked, Installing
<1>2. CASE Probe(c)
  BY <1>2
     DEF Probe, Goto, TypeOK, HoldInv, Failed, Locked, Installing
<1>3. CASE Persistent(c)
  BY <1>3
     DEF Persistent, Batch, Goto, Fault, Adds, TypeOK, HoldInv, Failed, Locked, Installing
<1>4. CASE Context(c)
  BY <1>4
     DEF Context, Batch, Goto, Fault, Adds, TypeOK, HoldInv, Failed, Locked, Installing
<1>5. CASE Lob(c)
  BY <1>5
     DEF Lob, Batch, Goto, Fault, Adds, TypeOK, HoldInv, Failed, Locked, Installing
<1>6. CASE Check(c)
  BY <1>6
     DEF Check, Goto, TypeOK, HoldInv, Failed, Locked, Installing
<1>7. CASE TakeLock(c)
  <2>1. CASE lock = Nobody /\ lock' = c /\ UNCHANGED faults
    <3> SUFFICES ASSUME ~Failed({"lock"}), NEW d \in Conns, pc'[d] \in Locked PROVE lock' = d
      BY <2>1, NothingFails DEF HoldInv
    <3>1. CASE d = c
      BY <2>1, <3>1
    <3>2. CASE d # c
      <4>1. pc[d] \in Locked
        BY <1>7, <3>2 DEF TakeLock, Goto, TypeOK
      <4> QED BY <4>1, <2>1, FacadeAssumption DEF HoldInv
    <3> QED BY <3>1, <3>2
  <2>2. CASE Fault(c)
    <3>1. Failed({"lock"})'
      BY <1>7, <2>2, FaultCounts DEF TakeLock
    <3> QED BY <3>1 DEF HoldInv
  <2> QED BY <1>7, <2>1, <2>2 DEF TakeLock
<1>8. CASE Recheck(c)
  BY <1>8
     DEF Recheck, Goto, TypeOK, HoldInv, Failed, Locked, Installing
<1>9. CASE Catalog(c)
  BY <1>9
     DEF Catalog, Batch, Goto, Fault, TypeOK, HoldInv, Failed, Locked, Installing
<1>10. CASE Ide(c)
  BY <1>10
     DEF Ide, Batch, Goto, Fault, TypeOK, HoldInv, Failed, Locked, Installing
<1>11. CASE Metadata(c)
  BY <1>11
     DEF Metadata, Batch, Goto, Fault, TypeOK, HoldInv, Failed, Locked, Installing
<1>12. CASE Marker(c)
  BY <1>12
     DEF Marker, Batch, Goto, Fault, TypeOK, HoldInv, Failed, Locked, Installing
<1>13. CASE Grants(c)
  BY <1>13
     DEF Grants, Batch, Goto, Fault, TypeOK, HoldInv, Failed, Locked, Installing
<1>14. CASE Unlock(c)
  BY <1>14
     DEF Unlock, Goto, TypeOK, HoldInv, Failed, Locked, Installing
<1>15. CASE Session(c)
  BY <1>15
     DEF Session, Goto, TypeOK, HoldInv, Failed, Locked, Installing
<1>16. CASE Die(c)
  BY <1>16
     DEF Die, Goto, Fault, TypeOK, HoldInv, Failed, Locked, Installing
<1> QED BY <1>1, <1>2, <1>3, <1>4, <1>5, <1>6, <1>7, <1>8, <1>9, <1>10, <1>11, <1>12, <1>13, <1>14, <1>15, <1>16 DEF Advance

\* It comes past the first batch only with the right to create objects.
LEMMA AdminStep ==
  ASSUME TypeOK, AdminInv, NEW c \in Conns, Advance(c) \/ Die(c)
  PROVE  AdminInv'
<1>1. CASE Start(c)
  BY <1>1
     DEF Start, Goto, Fault, TypeOK, AdminInv
<1>2. CASE Probe(c)
  BY <1>2
     DEF Probe, Goto, TypeOK, AdminInv
<1>3. CASE Persistent(c)
  BY <1>3
     DEF Persistent, Batch, Goto, Fault, Adds, TypeOK, AdminInv
<1>4. CASE Context(c)
  BY <1>4
     DEF Context, Batch, Goto, Fault, Adds, TypeOK, AdminInv
<1>5. CASE Lob(c)
  BY <1>5
     DEF Lob, Batch, Goto, Fault, Adds, TypeOK, AdminInv
<1>6. CASE Check(c)
  BY <1>6
     DEF Check, Goto, TypeOK, AdminInv
<1>7. CASE TakeLock(c)
  BY <1>7
     DEF TakeLock, Goto, Fault, TypeOK, AdminInv
<1>8. CASE Recheck(c)
  BY <1>8
     DEF Recheck, Goto, TypeOK, AdminInv
<1>9. CASE Catalog(c)
  BY <1>9
     DEF Catalog, Batch, Goto, Fault, TypeOK, AdminInv
<1>10. CASE Ide(c)
  BY <1>10
     DEF Ide, Batch, Goto, Fault, TypeOK, AdminInv
<1>11. CASE Metadata(c)
  BY <1>11
     DEF Metadata, Batch, Goto, Fault, TypeOK, AdminInv
<1>12. CASE Marker(c)
  BY <1>12
     DEF Marker, Batch, Goto, Fault, TypeOK, AdminInv
<1>13. CASE Grants(c)
  BY <1>13
     DEF Grants, Batch, Goto, Fault, TypeOK, AdminInv
<1>14. CASE Unlock(c)
  BY <1>14
     DEF Unlock, Goto, TypeOK, AdminInv
<1>15. CASE Session(c)
  BY <1>15
     DEF Session, Goto, TypeOK, AdminInv
<1>16. CASE Die(c)
  BY <1>16
     DEF Die, Goto, Fault, TypeOK, AdminInv
<1> QED BY <1>1, <1>2, <1>3, <1>4, <1>5, <1>6, <1>7, <1>8, <1>9, <1>10, <1>11, <1>12, <1>13, <1>14, <1>15, <1>16 DEF Advance

\* It writes the marker only where there is a table for it.
LEMMA TableStep ==
  ASSUME TypeOK, TableInv, NEW c \in Conns, Advance(c) \/ Die(c)
  PROVE  TableInv'
<1>1. CASE Start(c)
  BY <1>1
     DEF Start, Goto, Fault, TypeOK, TableInv
<1>2. CASE Probe(c)
  BY <1>2
     DEF Probe, Goto, TypeOK, TableInv
<1>3. CASE Persistent(c)
  BY <1>3
     DEF Persistent, Batch, Goto, Fault, Adds, TypeOK, TableInv
<1>4. CASE Context(c)
  BY <1>4
     DEF Context, Batch, Goto, Fault, Adds, TypeOK, TableInv
<1>5. CASE Lob(c)
  BY <1>5
     DEF Lob, Batch, Goto, Fault, Adds, TypeOK, TableInv
<1>6. CASE Check(c)
  BY <1>6
     DEF Check, Goto, TypeOK, TableInv
<1>7. CASE TakeLock(c)
  BY <1>7
     DEF TakeLock, Goto, Fault, TypeOK, TableInv
<1>8. CASE Recheck(c)
  BY <1>8
     DEF Recheck, Goto, TypeOK, TableInv
<1>9. CASE Catalog(c)
  BY <1>9
     DEF Catalog, Batch, Goto, Fault, TypeOK, TableInv
<1>10. CASE Ide(c)
  BY <1>10
     DEF Ide, Batch, Goto, Fault, TypeOK, TableInv
<1>11. CASE Metadata(c)
  BY <1>11
     DEF Metadata, Batch, Goto, Fault, TypeOK, TableInv
<1>12. CASE Marker(c)
  BY <1>12
     DEF Marker, Batch, Goto, Fault, TypeOK, TableInv
<1>13. CASE Grants(c)
  BY <1>13
     DEF Grants, Batch, Goto, Fault, TypeOK, TableInv
<1>14. CASE Unlock(c)
  BY <1>14
     DEF Unlock, Goto, TypeOK, TableInv
<1>15. CASE Session(c)
  BY <1>15
     DEF Session, Goto, TypeOK, TableInv
<1>16. CASE Die(c)
  BY <1>16
     DEF Die, Goto, Fault, TypeOK, TableInv
<1> QED BY <1>1, <1>2, <1>3, <1>4, <1>5, <1>6, <1>7, <1>8, <1>9, <1>10, <1>11, <1>12, <1>13, <1>14, <1>15, <1>16 DEF Advance

\* It reaches the installation only by way of the dbms_lob schema.
LEMMA LobStep ==
  ASSUME TypeOK, LobInv, NEW c \in Conns, Advance(c) \/ Die(c)
  PROVE  LobInv'
<1>1. CASE Start(c)
  BY <1>1
     DEF Start, Goto, Fault, TypeOK, LobInv, Failed, Locked, Installing, Steps
<1>2. CASE Probe(c)
  BY <1>2
     DEF Probe, Goto, TypeOK, LobInv, Failed, Locked, Installing, Steps, FacadeInstalled
<1>3. CASE Persistent(c)
  BY <1>3
     DEF Persistent, Batch, Goto, Fault, Adds, TypeOK, LobInv, Failed, Locked, Installing, Steps
<1>4. CASE Context(c)
  BY <1>4
     DEF Context, Batch, Goto, Fault, Adds, TypeOK, LobInv, Failed, Locked, Installing, Steps
<1>5. CASE Lob(c)
  <2>1. CASE admin[c] /\ db' = Adds("lob")
    BY <1>5, <2>1 DEF Lob, Batch, Adds, TypeOK, LobInv
  <2>2. CASE Fault(c)
    <3>1. Failed({"lob"})'
      BY <1>5, <2>2, FaultCounts DEF Lob, Batch
    <3> QED BY <3>1 DEF LobInv
  <2>3. CASE ~admin[c] /\ UNCHANGED <<db, faults>>
    BY <1>5, <2>3, NothingFails DEF Lob, Batch, Goto, TypeOK, LobInv
  <2> QED BY <1>5, <2>1, <2>2, <2>3 DEF Lob, Batch
<1>6. CASE Check(c)
  BY <1>6
     DEF Check, Goto, TypeOK, LobInv, Failed, Locked, Installing, Steps
<1>7. CASE TakeLock(c)
  BY <1>7
     DEF TakeLock, Goto, Fault, TypeOK, LobInv, Failed, Locked, Installing, Steps
<1>8. CASE Recheck(c)
  BY <1>8
     DEF Recheck, Goto, TypeOK, LobInv, Failed, Locked, Installing, Steps
<1>9. CASE Catalog(c)
  BY <1>9
     DEF Catalog, Batch, Goto, Fault, TypeOK, LobInv, Failed, Locked, Installing, Steps
<1>10. CASE Ide(c)
  BY <1>10
     DEF Ide, Batch, Goto, Fault, TypeOK, LobInv, Failed, Locked, Installing, Steps
<1>11. CASE Metadata(c)
  BY <1>11
     DEF Metadata, Batch, Goto, Fault, TypeOK, LobInv, Failed, Locked, Installing, Steps
<1>12. CASE Marker(c)
  BY <1>12
     DEF Marker, Batch, Goto, Fault, TypeOK, LobInv, Failed, Locked, Installing, Steps
<1>13. CASE Grants(c)
  BY <1>13
     DEF Grants, Batch, Goto, Fault, TypeOK, LobInv, Failed, Locked, Installing, Steps
<1>14. CASE Unlock(c)
  BY <1>14
     DEF Unlock, Goto, TypeOK, LobInv, Failed, Locked, Installing, Steps
<1>15. CASE Session(c)
  BY <1>15
     DEF Session, Goto, TypeOK, LobInv, Failed, Locked, Installing, Steps
<1>16. CASE Die(c)
  BY <1>16
     DEF Die, Goto, Fault, TypeOK, LobInv, Failed, Locked, Installing, Steps
<1> QED BY <1>1, <1>2, <1>3, <1>4, <1>5, <1>6, <1>7, <1>8, <1>9, <1>10, <1>11, <1>12, <1>13, <1>14, <1>15, <1>16 DEF Advance

\* It leaves what it has marked open.
LEMMA OpenStep ==
  ASSUME TypeOK, AdminInv, TableInv, LobInv, OpenInv, NEW c \in Conns, Advance(c) \/ Die(c)
  PROVE  OpenInv'
<1>1. CASE Start(c)
  BY <1>1
     DEF Start, Goto, Fault, TypeOK, AdminInv, TableInv, LobInv, OpenInv, Failed, Locked, Installing
<1>2. CASE Probe(c)
  BY <1>2
     DEF Probe, Goto, TypeOK, AdminInv, TableInv, LobInv, OpenInv, Failed, Locked, Installing
<1>3. CASE Persistent(c)
  BY <1>3
     DEF Persistent, Batch, Goto, Fault, Adds, TypeOK, AdminInv, TableInv, LobInv, OpenInv, Failed, Locked, Installing
<1>4. CASE Context(c)
  BY <1>4
     DEF Context, Batch, Goto, Fault, Adds, TypeOK, AdminInv, TableInv, LobInv, OpenInv, Failed, Locked, Installing
<1>5. CASE Lob(c)
  BY <1>5
     DEF Lob, Batch, Goto, Fault, Adds, TypeOK, AdminInv, TableInv, LobInv, OpenInv, Failed, Locked, Installing
<1>6. CASE Check(c)
  BY <1>6
     DEF Check, Goto, TypeOK, AdminInv, TableInv, LobInv, OpenInv, Failed, Locked, Installing
<1>7. CASE TakeLock(c)
  BY <1>7
     DEF TakeLock, Goto, Fault, TypeOK, AdminInv, TableInv, LobInv, OpenInv, Failed, Locked, Installing
<1>8. CASE Recheck(c)
  BY <1>8
     DEF Recheck, Goto, TypeOK, AdminInv, TableInv, LobInv, OpenInv, Failed, Locked, Installing
<1>9. CASE Catalog(c)
  BY <1>9
     DEF Catalog, Batch, Goto, Fault, TypeOK, AdminInv, TableInv, LobInv, OpenInv, Failed, Locked, Installing
<1>10. CASE Ide(c)
  BY <1>10
     DEF Ide, Batch, Goto, Fault, TypeOK, AdminInv, TableInv, LobInv, OpenInv, Failed, Locked, Installing
<1>11. CASE Metadata(c)
  BY <1>11
     DEF Metadata, Batch, Goto, Fault, TypeOK, AdminInv, TableInv, LobInv, OpenInv, Failed, Locked, Installing
<1>12. CASE Marker(c)
  BY <1>12
     DEF Marker, Batch, Goto, Fault, TypeOK, AdminInv, TableInv, LobInv, OpenInv, Failed, Locked, Installing
<1>13. CASE Grants(c)
  <2> DEFINE opening == {"marker", "grants", "persistent", "lob"}
  <2>1. CASE db' = [db EXCEPT !.granted = db.granted \cup {"sys", "metadata"}
                                             \cup (db.helpers \cap {"dbsaci", "lob"})]
             /\ UNCHANGED faults
    <3>1. SUFFICES ASSUME db.marker # 0, ~Failed(opening)
                   PROVE  {"sys", "metadata", "dbsaci", "lob"} \subseteq db'.granted
      BY <2>1, NothingFails DEF OpenInv, TypeOK
    <3>2. "dbsaci" \in db.helpers
      BY <3>1 DEF TableInv
    <3>3. pc[c] = "grants" /\ admin[c]
      BY <1>13 DEF Grants, Batch, AdminInv
    <3>4. "lob" \in db.helpers
      BY <3>1, <3>3 DEF LobInv, Failed, Locked, Installing
    <3>5. db'.granted = db.granted \cup {"sys", "metadata"} \cup (db.helpers \cap {"dbsaci", "lob"})
      BY <2>1 DEF TypeOK
    <3> QED BY <3>2, <3>4, <3>5
  <2>2. CASE Fault(c)
    <3>1. Failed(opening)'
      BY <1>13, <2>2, FaultCounts DEF Grants, Batch
    <3> QED BY <3>1 DEF OpenInv
  <2>3. admin[c]
    BY <1>13 DEF Grants, Batch, AdminInv
  <2> QED BY <1>13, <2>1, <2>2, <2>3 DEF Grants, Batch
<1>14. CASE Unlock(c)
  BY <1>14
     DEF Unlock, Goto, TypeOK, AdminInv, TableInv, LobInv, OpenInv, Failed, Locked, Installing
<1>15. CASE Session(c)
  BY <1>15
     DEF Session, Goto, TypeOK, AdminInv, TableInv, LobInv, OpenInv, Failed, Locked, Installing
<1>16. CASE Die(c)
  <2> DEFINE opening == {"marker", "grants", "persistent", "lob"}
  <2>1. CASE pc[c] = "grants"
    <3>1. Failed(opening)'
      BY <1>16, <2>1, FaultCounts DEF Die
    <3> QED BY <3>1 DEF OpenInv
  <2>2. CASE pc[c] # "grants"
    <3>1. Failed(opening) => Failed(opening)'
      BY <1>16, FaultCounts DEF Die
    <3>2. (\A d \in Conns : pc'[d] # "grants") => \A d \in Conns : pc[d] # "grants"
      BY <1>16, <2>2 DEF Die, Goto, TypeOK
    <3> QED BY <1>16, <3>1, <3>2 DEF Die, OpenInv
  <2> QED BY <2>1, <2>2
<1> QED BY <1>1, <1>2, <1>3, <1>4, <1>5, <1>6, <1>7, <1>8, <1>9, <1>10, <1>11, <1>12, <1>13, <1>14, <1>15, <1>16 DEF Advance

\* It starts on the views only when their marker is of another release, and nobody
\* else writes one meanwhile.
LEMMA NeedStep ==
  ASSUME TypeOK, HoldInv, TableInv, NoNeedlessInstall, NEW c \in Conns, Advance(c) \/ Die(c)
  PROVE  NoNeedlessInstall'
<1>1. CASE Start(c)
  BY <1>1, FacadeAssumption
     DEF Start, Goto, Fault, TypeOK, HoldInv, TableInv, NoNeedlessInstall, Failed, Locked, Installing
<1>2. CASE Probe(c)
  BY <1>2, FacadeAssumption
     DEF Probe, Goto, TypeOK, HoldInv, TableInv, NoNeedlessInstall, Failed, Locked, Installing
<1>3. CASE Persistent(c)
  BY <1>3, FacadeAssumption
     DEF Persistent, Batch, Goto, Fault, Adds, TypeOK, HoldInv, TableInv, NoNeedlessInstall, Failed, Locked, Installing
<1>4. CASE Context(c)
  BY <1>4, FacadeAssumption
     DEF Context, Batch, Goto, Fault, Adds, TypeOK, HoldInv, TableInv, NoNeedlessInstall, Failed, Locked, Installing
<1>5. CASE Lob(c)
  BY <1>5, FacadeAssumption
     DEF Lob, Batch, Goto, Fault, Adds, TypeOK, HoldInv, TableInv, NoNeedlessInstall, Failed, Locked, Installing
<1>6. CASE Check(c)
  BY <1>6, FacadeAssumption
     DEF Check, Goto, TypeOK, HoldInv, TableInv, NoNeedlessInstall, Failed, Locked, Installing
<1>7. CASE TakeLock(c)
  BY <1>7, FacadeAssumption
     DEF TakeLock, Goto, Fault, TypeOK, HoldInv, TableInv, NoNeedlessInstall, Failed, Locked, Installing
<1>8. CASE Recheck(c)
  BY <1>8, FacadeAssumption
     DEF Recheck, Goto, TypeOK, HoldInv, TableInv, NoNeedlessInstall, Failed, Locked, Installing, FacadeStale, Reads
<1>9. CASE Catalog(c)
  BY <1>9, FacadeAssumption
     DEF Catalog, Batch, Goto, Fault, TypeOK, HoldInv, TableInv, NoNeedlessInstall, Failed, Locked, Installing
<1>10. CASE Ide(c)
  BY <1>10, FacadeAssumption
     DEF Ide, Batch, Goto, Fault, TypeOK, HoldInv, TableInv, NoNeedlessInstall, Failed, Locked, Installing
<1>11. CASE Metadata(c)
  BY <1>11, FacadeAssumption
     DEF Metadata, Batch, Goto, Fault, TypeOK, HoldInv, TableInv, NoNeedlessInstall, Failed, Locked, Installing
<1>12. CASE Marker(c)
  BY <1>12, FacadeAssumption
     DEF Marker, Batch, Goto, Fault, TypeOK, HoldInv, TableInv, NoNeedlessInstall, Failed, Locked, Installing
<1>13. CASE Grants(c)
  BY <1>13, FacadeAssumption
     DEF Grants, Batch, Goto, Fault, TypeOK, HoldInv, TableInv, NoNeedlessInstall, Failed, Locked, Installing
<1>14. CASE Unlock(c)
  BY <1>14, FacadeAssumption
     DEF Unlock, Goto, TypeOK, HoldInv, TableInv, NoNeedlessInstall, Failed, Locked, Installing
<1>15. CASE Session(c)
  BY <1>15, FacadeAssumption
     DEF Session, Goto, TypeOK, HoldInv, TableInv, NoNeedlessInstall, Failed, Locked, Installing
<1>16. CASE Die(c)
  BY <1>16, FacadeAssumption
     DEF Die, Goto, Fault, TypeOK, HoldInv, TableInv, NoNeedlessInstall, Failed, Locked, Installing
<1> QED BY <1>1, <1>2, <1>3, <1>4, <1>5, <1>6, <1>7, <1>8, <1>9, <1>10, <1>11, <1>12, <1>13, <1>14, <1>15, <1>16 DEF Advance

\* It installs its own release.
LEMMA ReleaseStep ==
  ASSUME TypeOK, ReleaseInv, NEW c \in Conns, Advance(c) \/ Die(c)
  PROVE  ReleaseInv'
<1>1. CASE Start(c)
  BY <1>1, FacadeAssumption
     DEF Start, Goto, Fault, TypeOK, ReleaseInv, OneRelease, InStage
<1>2. CASE Probe(c)
  BY <1>2, FacadeAssumption
     DEF Probe, Goto, TypeOK, ReleaseInv, OneRelease, InStage
<1>3. CASE Persistent(c)
  BY <1>3, FacadeAssumption
     DEF Persistent, Batch, Goto, Fault, Adds, TypeOK, ReleaseInv, OneRelease, InStage
<1>4. CASE Context(c)
  BY <1>4, FacadeAssumption
     DEF Context, Batch, Goto, Fault, Adds, TypeOK, ReleaseInv, OneRelease, InStage
<1>5. CASE Lob(c)
  BY <1>5, FacadeAssumption
     DEF Lob, Batch, Goto, Fault, Adds, TypeOK, ReleaseInv, OneRelease, InStage
<1>6. CASE Check(c)
  BY <1>6, FacadeAssumption
     DEF Check, Goto, TypeOK, ReleaseInv, OneRelease, InStage
<1>7. CASE TakeLock(c)
  BY <1>7, FacadeAssumption
     DEF TakeLock, Goto, Fault, TypeOK, ReleaseInv, OneRelease, InStage
<1>8. CASE Recheck(c)
  BY <1>8, FacadeAssumption
     DEF Recheck, Goto, TypeOK, ReleaseInv, OneRelease, InStage
<1>9. CASE Catalog(c)
  BY <1>9, FacadeAssumption
     DEF Catalog, Batch, Goto, Fault, TypeOK, ReleaseInv, OneRelease, InStage
<1>10. CASE Ide(c)
  BY <1>10, FacadeAssumption
     DEF Ide, Batch, Goto, Fault, TypeOK, ReleaseInv, OneRelease, InStage
<1>11. CASE Metadata(c)
  BY <1>11, FacadeAssumption
     DEF Metadata, Batch, Goto, Fault, TypeOK, ReleaseInv, OneRelease, InStage
<1>12. CASE Marker(c)
  BY <1>12, FacadeAssumption
     DEF Marker, Batch, Goto, Fault, TypeOK, ReleaseInv, OneRelease, InStage
<1>13. CASE Grants(c)
  BY <1>13, FacadeAssumption
     DEF Grants, Batch, Goto, Fault, TypeOK, ReleaseInv, OneRelease, InStage
<1>14. CASE Unlock(c)
  BY <1>14, FacadeAssumption
     DEF Unlock, Goto, TypeOK, ReleaseInv, OneRelease, InStage
<1>15. CASE Session(c)
  BY <1>15, FacadeAssumption
     DEF Session, Goto, TypeOK, ReleaseInv, OneRelease, InStage
<1>16. CASE Die(c)
  BY <1>16, FacadeAssumption
     DEF Die, Goto, Fault, TypeOK, ReleaseInv, OneRelease, InStage
<1> QED BY <1>1, <1>2, <1>3, <1>4, <1>5, <1>6, <1>7, <1>8, <1>9, <1>10, <1>11, <1>12, <1>13, <1>14, <1>15, <1>16 DEF Advance

\* It marks what it has installed, and comes to an end of it alone.
LEMMA OrderStep ==
  ASSUME TypeOK, HoldInv, AdminInv, TableInv, OrderInv, NEW c \in Conns, Advance(c) \/ Die(c)
  PROVE  OrderInv'
<1>1. CASE Start(c)
  BY <1>1, FacadeAssumption
     DEF Start, Goto, Fault, TypeOK, HoldInv, AdminInv, TableInv, OrderInv, InStage, Failed, Locked, Installing
<1>2. CASE Probe(c)
  BY <1>2, FacadeAssumption
     DEF Probe, Goto, TypeOK, HoldInv, AdminInv, TableInv, OrderInv, InStage, Failed, Locked, Installing
<1>3. CASE Persistent(c)
  BY <1>3, FacadeAssumption
     DEF Persistent, Batch, Goto, Fault, Adds, TypeOK, HoldInv, AdminInv, TableInv, OrderInv, InStage, Failed, Locked, Installing
<1>4. CASE Context(c)
  BY <1>4, FacadeAssumption
     DEF Context, Batch, Goto, Fault, Adds, TypeOK, HoldInv, AdminInv, TableInv, OrderInv, InStage, Failed, Locked, Installing
<1>5. CASE Lob(c)
  BY <1>5, FacadeAssumption
     DEF Lob, Batch, Goto, Fault, Adds, TypeOK, HoldInv, AdminInv, TableInv, OrderInv, InStage, Failed, Locked, Installing
<1>6. CASE Check(c)
  BY <1>6, FacadeAssumption
     DEF Check, Goto, TypeOK, HoldInv, AdminInv, TableInv, OrderInv, InStage, Failed, Locked, Installing
<1>7. CASE TakeLock(c)
  BY <1>7, FacadeAssumption
     DEF TakeLock, Goto, Fault, TypeOK, HoldInv, AdminInv, TableInv, OrderInv, InStage, Failed, Locked, Installing
<1>8. CASE Recheck(c)
  BY <1>8, FacadeAssumption
     DEF Recheck, Goto, TypeOK, HoldInv, AdminInv, TableInv, OrderInv, InStage, Failed, Locked, Installing
<1>9. CASE Catalog(c)
  BY <1>9, FacadeAssumption
     DEF Catalog, Batch, Goto, Fault, TypeOK, HoldInv, AdminInv, TableInv, OrderInv, InStage, Failed, Locked, Installing
<1>10. CASE Ide(c)
  <2>1. CASE admin[c] /\ Goto(c, "metadata") /\ db' = [db EXCEPT !.ide = version[c]] /\ UNCHANGED faults
    <3>1. SUFFICES ASSUME ~Failed(Installing), ~Failed({"lock"}), OrderInv
                   PROVE  OrderInv'
      BY <2>1, NothingFails DEF OrderInv
    <3>2. pc[c] = "ide" /\ \A d \in Conns : pc[d] \in Locked => d = c
      BY <1>10, <3>1 DEF Ide, Batch, HoldInv, Locked, Installing
    <3>3. \A d \in Conns : d # c => pc'[d] = pc[d]
      BY <1>10 DEF Ide, Batch, Goto, TypeOK
    <3>4. \A d \in Conns : d # c => pc'[d] \notin {"ide", "metadata", "marker"}
      BY <3>2, <3>3 DEF Locked, Installing
    <3>5. InStage(c)'
      BY <1>10, <2>1, <3>1, <3>2 DEF Ide, Batch, Goto, TypeOK, OrderInv, InStage
    <3>6. \A d \in Conns : InStage(d)'
      BY <3>4, <3>5 DEF InStage
    <3>7. pc'[c] = "metadata"
      BY <1>10, <2>1 DEF Ide, Batch, Goto, Fault, TypeOK
    <3> QED BY <3>6, <3>7 DEF OrderInv
  <2>2. CASE Fault(c)
    <3>1. Failed(Installing)'
      BY <1>10, <2>2, FaultCounts DEF Ide, Batch, Installing
    <3> QED BY <3>1 DEF OrderInv
  <2>3. admin[c]
    BY <1>10 DEF Ide, Batch, AdminInv
  <2> QED BY <1>10, <2>1, <2>2, <2>3 DEF Ide, Batch
<1>11. CASE Metadata(c)
  <2>1. CASE admin[c] /\ Goto(c, "marker") /\ db' = [db EXCEPT !.metadata = version[c]] /\ UNCHANGED faults
    <3>1. SUFFICES ASSUME ~Failed(Installing), ~Failed({"lock"}), OrderInv
                   PROVE  OrderInv'
      BY <2>1, NothingFails DEF OrderInv
    <3>2. pc[c] = "metadata" /\ \A d \in Conns : pc[d] \in Locked => d = c
      BY <1>11, <3>1 DEF Metadata, Batch, HoldInv, Locked, Installing
    <3>3. \A d \in Conns : d # c => pc'[d] = pc[d]
      BY <1>11 DEF Metadata, Batch, Goto, TypeOK
    <3>4. \A d \in Conns : d # c => pc'[d] \notin {"ide", "metadata", "marker"}
      BY <3>2, <3>3 DEF Locked, Installing
    <3>5. InStage(c)'
      BY <1>11, <2>1, <3>1, <3>2 DEF Metadata, Batch, Goto, TypeOK, OrderInv, InStage
    <3>6. \A d \in Conns : InStage(d)'
      BY <3>4, <3>5 DEF InStage
    <3>7. pc'[c] = "marker"
      BY <1>11, <2>1 DEF Metadata, Batch, Goto, Fault, TypeOK
    <3> QED BY <3>6, <3>7 DEF OrderInv
  <2>2. CASE Fault(c)
    <3>1. Failed(Installing)'
      BY <1>11, <2>2, FaultCounts DEF Metadata, Batch, Installing
    <3> QED BY <3>1 DEF OrderInv
  <2>3. admin[c]
    BY <1>11 DEF Metadata, Batch, AdminInv
  <2> QED BY <1>11, <2>1, <2>2, <2>3 DEF Metadata, Batch
<1>12. CASE Marker(c)
  <2>1. CASE admin[c] /\ UNCHANGED faults
             /\ db' = IF "dbsaci" \in db.helpers THEN [db EXCEPT !.marker = version[c]] ELSE db
    <3>1. SUFFICES ASSUME ~Failed(Installing), ~Failed({"lock"})
                   PROVE  OrderInv'
      BY <2>1, NothingFails DEF OrderInv
    <3>2. pc[c] = "marker" /\ \A d \in Conns : pc[d] \in Locked => d = c
      BY <1>12, <3>1 DEF Marker, Batch, HoldInv, Locked, Installing
    <3>3. pc'[c] = "grants" /\ \A d \in Conns : d # c => pc'[d] = pc[d]
      BY <1>12, <2>1 DEF Marker, Batch, Goto, TypeOK
    <3>4. \A d \in Conns : pc'[d] \notin {"ide", "metadata", "marker"}
      BY <3>2, <3>3 DEF Locked, Installing
    <3>5. \A d \in Conns : InStage(d)'
      BY <3>4 DEF InStage
    <3>6. db.catalog = version[c] /\ db.ide = version[c] /\ db.metadata = version[c]
      BY <3>1, <3>2 DEF OrderInv, InStage
    <3>7. db'.marker # 0 => db'.catalog = db'.marker /\ db'.ide = db'.marker /\ db'.metadata = db'.marker
      BY <2>1, <3>6 DEF TypeOK, TableInv
    <3> QED BY <3>5, <3>7 DEF OrderInv
  <2>2. CASE Fault(c)
    <3>1. Failed(Installing)'
      BY <1>12, <2>2, FaultCounts DEF Marker, Batch, Installing
    <3> QED BY <3>1 DEF OrderInv
  <2>3. admin[c]
    BY <1>12 DEF Marker, Batch, AdminInv
  <2> QED BY <1>12, <2>1, <2>2, <2>3 DEF Marker, Batch
<1>13. CASE Grants(c)
  BY <1>13, FacadeAssumption
     DEF Grants, Batch, Goto, Fault, TypeOK, HoldInv, AdminInv, TableInv, OrderInv, InStage, Failed, Locked, Installing
<1>14. CASE Unlock(c)
  BY <1>14, FacadeAssumption
     DEF Unlock, Goto, TypeOK, HoldInv, AdminInv, TableInv, OrderInv, InStage, Failed, Locked, Installing
<1>15. CASE Session(c)
  BY <1>15, FacadeAssumption
     DEF Session, Goto, TypeOK, HoldInv, AdminInv, TableInv, OrderInv, InStage, Failed, Locked, Installing
<1>16. CASE Die(c)
  <2>1. CASE pc[c] \in Installing
    <3>1. Failed(Installing)'
      BY <1>16, <2>1, FaultCounts DEF Die
    <3> QED BY <3>1 DEF OrderInv
  <2>2. CASE pc[c] \notin Installing
    <3>1. /\ Failed(Installing) => Failed(Installing)'
          /\ Failed({"lock"}) => Failed({"lock"})'
      BY <1>16, FaultCounts DEF Die
    <3>2. \A d \in Conns : /\ d # c => pc'[d] = pc[d]
                           /\ d = c => pc'[d] = "dead"
      BY <1>16 DEF Die, Goto, TypeOK
    <3>3. UNCHANGED <<version, db>>
      BY <1>16 DEF Die
    <3> QED BY <2>2, <3>1, <3>2, <3>3 DEF OrderInv, InStage, Installing
  <2> QED BY <2>1, <2>2
<1> QED BY <1>1, <1>2, <1>3, <1>4, <1>5, <1>6, <1>7, <1>8, <1>9, <1>10, <1>11, <1>12, <1>13, <1>14, <1>15, <1>16 DEF Advance

\* The invariant holds before anybody connects.
LEMMA InitInv == ASSUME Init PROVE Inv
<1>1. TypeOK
  BY FacadeAssumption DEF Init, NothingInstalled, TypeOK, Steps, Ended, Helpers, Nobody
<1> QED
  BY <1>1 DEF Init, NothingInstalled, Inv, HoldInv, AdminInv, TableInv, LobInv, OpenInv,
     NoNeedlessInstall, ReleaseInv, OrderInv, InStage, Locked, Installing

\* Every step keeps it.
LEMMA NextInv == ASSUME Inv, [Next]_vars PROVE Inv'
<1>1. CASE UNCHANGED vars
  BY <1>1 DEF vars, Inv, TypeOK, HoldInv, AdminInv, TableInv, LobInv, OpenInv,
     NoNeedlessInstall, ReleaseInv, OneRelease, OrderInv, InStage, Failed
<1>2. ASSUME NEW c \in Conns, Advance(c) \/ Die(c) PROVE Inv'
  BY <1>2, TypeStep, HoldStep, AdminStep, TableStep, LobStep, OpenStep, NeedStep, ReleaseStep,
     OrderStep DEF Inv
<1> QED BY <1>1, <1>2 DEF Next, Over

----------------------------------------------------------------------------
(* The invariant, and what follows from it.                                *)

THEOREM FacadeInvariant == Spec => []Inv
<1>1. Init => Inv BY InitInv
<1>2. Inv /\ [Next]_vars => Inv' BY NextInv
<1> QED BY <1>1, <1>2, PTL DEF Spec

\* Every variable has its type, and whoever holds the advisory lock is at work under it.
THEOREM FacadeType == Spec => []TypeOK
<1>1. Inv => TypeOK
  BY DEF Inv
<1> QED BY <1>1, FacadeInvariant, PTL

\* However many connections come at once, none applies the views its own release has
\* marked already, as long as the lock can be taken.
THEOREM FacadeNoNeedlessInstall == Spec => []NoNeedlessInstall
<1>1. Inv => NoNeedlessInstall
  BY DEF Inv
<1> QED BY <1>1, FacadeInvariant, PTL

\* What a marker vouches for is open to every role once nobody installs, unless a step
\* named there failed.
THEOREM FacadeMarkedIsOpen == Spec => []MarkedIsOpen
<1>1. Inv => MarkedIsOpen
  BY DEF Inv, OpenInv, MarkedIsOpen, Quiet, Installing
<1> QED BY <1>1, FacadeInvariant, PTL

\* The marker's version is that of every batch: at all times among proxies of one
\* release, and else whenever nobody installs and no installation was cut short.
THEOREM FacadeMarkerHonest == Spec => []MarkerHonest
<1>1. Inv => MarkerHonest
<2> SUFFICES ASSUME Inv, db.marker # 0,
                    \/ OneRelease
                    \/ Quiet /\ ~Failed(Installing) /\ ~Failed({"lock"})
             PROVE  db.catalog = db.marker /\ db.ide = db.marker /\ db.metadata = db.marker
  BY DEF MarkerHonest, OneRelease
<2>1. CASE OneRelease
  <3>1. CASE Conns = {}
    BY <3>1 DEF Inv, TypeOK, OrderInv, Failed
  <3>2. CASE Conns # {}
    BY <2>1, <3>2 DEF Inv, ReleaseInv
  <3> QED BY <3>1, <3>2
<2>2. CASE Quiet /\ ~Failed(Installing) /\ ~Failed({"lock"})
  BY <2>2 DEF Inv, OrderInv, Quiet, Installing
<2> QED BY <2>1, <2>2
<1> QED BY <1>1, FacadeInvariant, PTL

=============================================================================
