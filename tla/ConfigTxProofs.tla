--------------------------- MODULE ConfigTxProofs ---------------------------
(***************************************************************************)
(* Theorems about the transactions on the configuration, for any number of *)
(* requests, any routes, and a history of any length.                      *)
(***************************************************************************)
EXTENDS ConfigTx, TLAPS

(* What a step of the write under way may do to the writers: nothing, move  *)
(* one of them on, or let it go.                                            *)
Writers ==
  /\ writeMu \in Editors \cup {Nobody}
  /\ pc \in [Editors -> {"idle", "parsed", "saved", "refused", "restored"}]
  /\ ifMatch \in [Editors -> Config \cup {NoConfig}]
  /\ raw \in [Editors -> Config \cup {NoConfig}]
  /\ next \in [Editors -> Config \cup {NoConfig}]
  /\ \A e \in Editors :
       /\ pc[e] # "idle" <=> writeMu = e
       /\ pc[e] # "idle" => raw[e] \in Config /\ next[e] \in Config

Readers ==
  /\ mu \in Threads \cup {Nobody}
  /\ cfg \in Config \cup {NoConfig} /\ swapped \in BOOLEAN
  /\ mu # Nobody => cfg \in Config
  /\ table \in Config \cup {NoConfig} /\ tls \in Config \cup {NoConfig}

Store ==
  /\ db \in Config
  /\ history \in Seq(Config) /\ Len(history) <= HistoryKeep

Flags == up \in BOOLEAN /\ certs \in BOOLEAN /\ cache \in BOOLEAN /\ drifted \in BOOLEAN

(* TypeOK is the four of them, before a step and after it. *)
LEMMA TypeParts ==
  /\ TypeOK <=> Store /\ Flags /\ Writers /\ Readers
  /\ TypeOK' <=> Store' /\ Flags' /\ Writers' /\ Readers'
  BY DEF TypeOK, Store, Flags, Writers, Readers

(* Archiving keeps the history within its length, and keeps what was        *)
(* replaced in it.                                                          *)
LEMMA ArchivedType ==
  ASSUME Store, NEW c \in Config
  PROVE  /\ Archived(c) \in Seq(Config)
         /\ Len(Archived(c)) <= HistoryKeep
         /\ \E k \in 1 .. Len(Archived(c)) : Archived(c)[k] = c
<1> USE ConfigAssumption DEF Store
<1>1. CASE \E k \in 1 .. Len(history) : history[k] = c
  BY <1>1 DEF Archived
<1>2. CASE ~\E k \in 1 .. Len(history) : history[k] = c
  <2> DEFINE longer == Append(history, c)
  <2>1. /\ longer \in Seq(Config) /\ Len(longer) = Len(history) + 1
        /\ longer[Len(longer)] = c
    OBVIOUS
  <2>2. Archived(c) = Newest(longer)
    BY <1>2 DEF Archived
  <2> HIDE DEF longer
  <2>3. CASE Len(longer) > HistoryKeep
    <3>1. /\ Tail(longer) \in Seq(Config) /\ Len(Tail(longer)) = Len(history)
          /\ Len(history) >= 1
      BY <2>1, <2>3
    <3>2. Tail(longer)[Len(history)] = c
      BY <2>1, <3>1
    <3> QED BY <2>2, <2>3, <3>1, <3>2 DEF Newest
  <2>4. CASE ~(Len(longer) > HistoryKeep)
    BY <2>1, <2>2, <2>4 DEF Newest
  <2> QED BY <2>3, <2>4
<1> QED BY <1>1, <1>2

(* A write of any configuration leaves a store. *)
LEMMA WriteType == ASSUME Store, NEW c \in Config, Write(c) PROVE Store'
  BY ArchivedType DEF Write, Store

(* The writers stay writers when one of them is done. *)
LEMMA FinishedType ==
  ASSUME Writers, NEW e \in Editors, writeMu = e, Finished(e)
  PROVE  Writers'
  BY ConfigAssumption DEF Writers, Finished

(* The writers stay writers when a reload returns. *)
LEMMA ReturnedType ==
  ASSUME Writers, NEW t \in Threads, NEW ok \in BOOLEAN, Returned(t, ok),
         t \in Editors => pc[t] \in {"saved", "restored"}
  PROVE  Writers' /\ drifted' \in {drifted, drifted \/ ~ok}
<1>1. CASE t \in Editors /\ pc[t] = "saved" /\ ~ok
  BY <1>1 DEF Writers, Returned
<1>2. CASE t \in Editors /\ ~(pc[t] = "saved" /\ ~ok)
  BY <1>2, FinishedType DEF Writers, Returned
<1>3. CASE t \notin Editors
  BY <1>3 DEF Writers, Returned, editors
<1> QED BY <1>1, <1>2, <1>3

(* An edit of a configuration is a configuration.                          *)
LEMMA EditedType == ASSUME NEW c \in Config PROVE Edits(c) \subseteq Config
  BY DEF Edits, Config

-----------------------------------------------------------------------------
(* A step of mutate, of reload, or of the world outside keeps the types.    *)
LEMMA MutateTypes ==
  ASSUME TypeOK, NEW e \in Editors, Mutate(e)
  PROVE  TypeOK'
<1> USE ConfigAssumption, TypeParts
<1>1. CASE Parse(e)
  <2>1. PICK tag \in {NoConfig, db}, c \in Config :
          /\ next' = [next EXCEPT ![e] = c]
          /\ ifMatch' = [ifMatch EXCEPT ![e] = tag]
    BY <1>1, EditedType DEF Parse, Store
  <2>2. Writers'
    BY <1>1, <2>1 DEF Parse, Writers, Store
  <2> QED BY <1>1, <2>2 DEF Parse, Store, Flags, Readers, store, reloading, live, outside
<1>2. CASE Save(e)
  <2>1. next[e] \in Config /\ writeMu = e
    BY <1>2 DEF Save, Writers
  <2>2. Store'
    BY <1>2, <2>1, WriteType DEF Save
  <2> QED BY <1>2, <2>2 DEF Save, Flags, Writers, Readers, reloading, live, outside
<1>3. CASE SaveFails(e)
  <2>1. Writers'
    BY <1>3, FinishedType DEF SaveFails, Writers
  <2> QED BY <1>3, <2>1 DEF SaveFails, Store, Flags, Readers, store, reloading, live, outside
<1>4. CASE Restore(e)
  <2>1. raw[e] \in Config /\ writeMu = e
    BY <1>4 DEF Restore, Writers
  <2>2. Store'
    BY <1>4, <2>1, WriteType DEF Restore
  <2> QED BY <1>4, <2>2 DEF Restore, Flags, Writers, Readers, reloading, live, outside
<1>5. CASE RestoreFails(e)
  <2>1. Writers'
    BY <1>5, FinishedType DEF RestoreFails, Writers
  <2> QED BY <1>5, <2>1 DEF RestoreFails, Store, Flags, Readers, store, reloading, live, outside
<1> QED BY <1>1, <1>2, <1>3, <1>4, <1>5 DEF Mutate

LEMMA ReloadTypes ==
  ASSUME TypeOK, NEW t \in Threads, Reload(t),
         t \in Editors /\ mu = t => pc[t] \in {"saved", "restored"}
  PROVE  TypeOK'
<1> USE ConfigAssumption, TypeParts
<1>1. CASE Load(t)
  BY <1>1 DEF Load, Store, Flags, Writers, Readers, store, editors, live, outside
<1>2. CASE LoadFails(t)
  <2>1. Writers' /\ drifted' \in BOOLEAN
    BY <1>2, ReturnedType DEF LoadFails, Calls, Flags
  <2> QED BY <1>2, <2>1 DEF LoadFails, Store, Flags, Readers, store, reloading, live, outside
<1>3. CASE Swap(t)
  BY <1>3 DEF Swap, Store, Flags, Writers, Readers, store, editors, outside
<1>4. CASE Apply(t)
  <2>1. Writers' /\ drifted' \in BOOLEAN
    BY <1>4, ReturnedType DEF Apply, Flags
  <2>2. Readers'
    BY <1>4 DEF Apply, Leave, Readers
  <2> QED BY <1>4, <2>1, <2>2 DEF Apply, Store, Flags, store, outside
<1>5. CASE ApplyFails(t)
  <2>1. Writers' /\ drifted' \in BOOLEAN
    BY <1>5, ReturnedType DEF ApplyFails, Flags
  <2>2. Readers'
    BY <1>5 DEF ApplyFails, Leave, Readers, live
  <2> QED BY <1>5, <2>1, <2>2 DEF ApplyFails, Store, Flags, store, outside
<1> QED BY <1>1, <1>2, <1>3, <1>4, <1>5 DEF Reload

LEMMA OutsideTypes ==
  ASSUME TypeOK, Import \/ CertsChange \/ CacheChanges \/ Crash \/ Boot
  PROVE  TypeOK'
<1> USE ConfigAssumption, TypeParts
<1>1. CASE Import
  <2>1. Store'
    BY <1>1, WriteType DEF Import
  <2> QED BY <1>1, <2>1 DEF Import, Flags, Writers, Readers, editors, reloading, live, outside
<1>2. CASE CertsChange
  BY <1>2 DEF CertsChange, Store, Flags, Writers, Readers, store, editors, reloading, live
<1>3. CASE CacheChanges
  BY <1>3 DEF CacheChanges, Store, Flags, Writers, Readers, store, editors, reloading, live
<1>4. CASE Crash
  BY <1>4 DEF Crash, Leave, Store, Flags, Writers, Readers, store, outside
<1>5. CASE Boot
  BY <1>5 DEF Boot, Store, Flags, Writers, Readers, store, editors, reloading, outside
<1> QED BY <1>1, <1>2, <1>3, <1>4, <1>5

-----------------------------------------------------------------------------
(* A write that the running process does not follow yet.                    *)
Following(e) == pc[e] \in {"saved", "refused", "restored"}

(* Why live and store agree at rest: a reload under way has read what the   *)
(* database holds, or a write will reload after it; and what it has stored  *)
(* is what it read.                                                         *)
LiveInv ==
  /\ TypeOK
  /\ ~up => mu = Nobody
  /\ \A e \in Editors : mu = e => pc[e] \in {"saved", "restored"}
  /\ up /\ ~drifted /\ mu # Nobody =>
       cfg = db \/ \E e \in Editors : Following(e) /\ mu # e
  /\ swapped => mu # Nobody /\ table = cfg
  /\ up /\ ~drifted /\ mu = Nobody =>
       (table = db /\ tls = db) \/ \E e \in Editors : Following(e)

LEMMA LiveInit == Init => LiveInv
<1> SUFFICES ASSUME Init PROVE LiveInv
  OBVIOUS
<1> USE ConfigAssumption DEF Init
<1>1. TypeOK
  <2>1. Store
    BY DEF Store
  <2>2. Flags /\ Writers /\ Readers
    BY DEF Flags, Writers, Readers
  <2> QED BY <2>1, <2>2, TypeParts
<1> QED BY <1>1 DEF LiveInv

(* The writer is the only one at work.                                      *)
LEMMA OneWriter ==
  ASSUME TypeOK, NEW e \in Editors, pc[e] # "idle"
  PROVE  \A f \in Editors : f # e => pc[f] = "idle"
  BY TypeParts DEF Writers

LEMMA MutateKeepsLive ==
  ASSUME LiveInv, NEW e \in Editors, Mutate(e)
  PROVE  LiveInv'
<1> USE ConfigAssumption DEF LiveInv
<1>1. TypeOK'
  BY MutateTypes
<1>2. pc \in [Editors -> {"idle", "parsed", "saved", "refused", "restored"}]
  BY DEF TypeOK
<1>3. CASE Parse(e) \/ SaveFails(e)
  <2>1. ~Following(e) /\ ~Following(e)' /\ mu # e
    BY <1>2, <1>3 DEF Parse, SaveFails, Finished, Following
  <2>2. \A f \in Editors : Following(f)' = Following(f)
    BY <1>2, <1>3, <2>1 DEF Parse, SaveFails, Finished, Following
  <2>3. UNCHANGED <<db, up, mu, cfg, swapped, table, tls, drifted>>
    BY <1>3 DEF Parse, SaveFails, store, reloading, live
  <2>4. \A f \in Editors : mu = f => pc'[f] = pc[f]
    BY <1>2, <1>3, <2>1 DEF Parse, SaveFails, Finished
  <2> QED BY <1>1, <2>2, <2>3, <2>4
<1>4. CASE Save(e) \/ Restore(e)
  <2>1. mu # e /\ Following(e)'
    BY <1>2, <1>4 DEF Save, Restore, Following
  <2>2. UNCHANGED <<up, mu, cfg, swapped, table, tls, drifted>>
    BY <1>4 DEF Save, Restore, reloading, live
  <2>3. \A f \in Editors : mu = f => pc'[f] = pc[f]
    BY <1>2, <1>4, <2>1 DEF Save, Restore
  <2> QED BY <1>1, <2>1, <2>2, <2>3
<1>5. CASE RestoreFails(e)
  <2>1. mu # e
    BY <1>2, <1>5 DEF RestoreFails
  <2>2. drifted' /\ UNCHANGED <<up, mu, cfg, swapped, table>>
    BY <1>5 DEF RestoreFails, reloading, live
  <2>3. \A f \in Editors : mu = f => pc'[f] = pc[f]
    BY <1>2, <1>5, <2>1 DEF RestoreFails, Finished
  <2> QED BY <1>1, <2>2, <2>3
<1> QED BY <1>3, <1>4, <1>5 DEF Mutate

(* A reload that returns either leaves a write to follow, is the one such a *)
(* write waited for, or is none of its concern.                             *)
LEMMA ReturnedFollows ==
  ASSUME TypeOK, NEW t \in Threads, NEW ok \in BOOLEAN, Returned(t, ok),
         t \in Editors => pc[t] \in {"saved", "restored"}
  PROVE  /\ ~ok => drifted' \/ \E e \in Editors : Following(e)'
         /\ ok => drifted' = drifted
         /\ t \notin Editors => \A e \in Editors : Following(e)' = Following(e)
<1>1. pc \in [Editors -> {"idle", "parsed", "saved", "refused", "restored"}]
  BY DEF TypeOK
<1>2. drifted \in BOOLEAN
  BY DEF TypeOK
<1>3. CASE t \in Editors /\ pc[t] = "saved" /\ ~ok
  BY <1>1, <1>3 DEF Returned, Following
<1>4. CASE t \in Editors /\ ~(pc[t] = "saved" /\ ~ok)
  BY <1>1, <1>2, <1>4 DEF Returned
<1>5. CASE t \notin Editors
  BY <1>2, <1>5 DEF Returned, editors, Following
<1> QED BY <1>3, <1>4, <1>5

LEMMA ReloadKeepsLive ==
  ASSUME LiveInv, NEW t \in Threads, Reload(t)
  PROVE  LiveInv'
<1> USE ConfigAssumption DEF LiveInv
<1>1. TypeOK' /\ t # Nobody
  BY ReloadTypes DEF Threads
<1>2. pc \in [Editors -> {"idle", "parsed", "saved", "refused", "restored"}]
  BY DEF TypeOK
<1>3. CASE Load(t)
  BY <1>1, <1>3 DEF Load, Calls, editors, store, live
<1>4. CASE LoadFails(t)
  <2>1. drifted' \/ \E e \in Editors : Following(e)'
    BY <1>4, ReturnedFollows DEF LoadFails, Calls
  <2>2. UNCHANGED <<up, mu, swapped>> /\ mu = Nobody
    BY <1>4 DEF LoadFails, reloading
  <2> QED BY <1>1, <2>1, <2>2
<1>5. CASE Swap(t)
  BY <1>1, <1>5 DEF Swap, editors, store, Following
<1>6. CASE Apply(t)
  <2>1. /\ mu' = Nobody /\ ~swapped' /\ drifted' = drifted
        /\ t \notin Editors => \A e \in Editors : Following(e)' = Following(e)
    BY <1>6, ReturnedFollows DEF Apply, Leave
  <2>2. UNCHANGED <<db, up, table>> /\ tls' = cfg /\ table = cfg /\ mu = t
    BY <1>1, <1>6 DEF Apply, store
  <2>3. CASE t \in Editors
    <3>1. \A e \in Editors : Following(e) => e = t
      BY <1>2, <2>2, <2>3, OneWriter DEF Following
    <3> QED BY <1>1, <2>1, <2>2, <3>1
  <2>4. CASE t \notin Editors
    BY <1>1, <2>1, <2>2, <2>4
  <2> QED BY <2>3, <2>4
<1>7. CASE ApplyFails(t)
  <2>1. drifted' \/ \E e \in Editors : Following(e)'
    BY <1>7, ReturnedFollows DEF ApplyFails
  <2>2. UNCHANGED up /\ mu' = Nobody /\ ~swapped'
    BY <1>7 DEF ApplyFails, Leave
  <2> QED BY <1>1, <2>1, <2>2
<1> QED BY <1>3, <1>4, <1>5, <1>6, <1>7 DEF Reload

LEMMA OutsideKeepsLive ==
  ASSUME LiveInv, Import \/ CertsChange \/ CacheChanges \/ Crash \/ Boot
  PROVE  LiveInv'
<1> USE ConfigAssumption DEF LiveInv
<1>1. TypeOK'
  BY OutsideTypes
<1>2. CASE Import
  BY <1>1, <1>2 DEF Import, editors, reloading, live
<1>3. CASE CertsChange \/ CacheChanges
  BY <1>1, <1>3 DEF CertsChange, CacheChanges, store, editors, reloading, live, Following
<1>4. CASE Crash
  BY <1>1, <1>4 DEF Crash, Leave, Threads
<1>5. CASE Boot
  BY <1>1, <1>5 DEF Boot, store, editors, reloading
<1> QED BY <1>2, <1>3, <1>4, <1>5

LEMMA StandingStill == ASSUME LiveInv, UNCHANGED vars PROVE LiveInv'
  BY DEF LiveInv, TypeOK, vars, store, editors, reloading, live, outside, Following

LEMMA LiveStep == LiveInv /\ [Next]_vars => LiveInv'
  BY MutateKeepsLive, ReloadKeepsLive, OutsideKeepsLive, StandingStill DEF Next

(* Types, of a configuration that changes at any pace: TypeOK.              *)
THEOREM ConfigTypes == Spec => []TypeOK
<1>1. LiveInv => TypeOK
  BY DEF LiveInv
<1> QED BY <1>1, LiveInit, LiveStep, PTL DEF Spec

(* At rest the process has loaded the configuration in the database:        *)
(* whatever the writes, the rollbacks and the reloads beside them           *)
(* (LiveMatchesStore).                                                      *)
THEOREM LiveAgrees == Spec => []LiveMatchesStore
<1>1. LiveInv => LiveMatchesStore
  BY ConfigAssumption DEF LiveInv, LiveMatchesStore, Following, TypeOK
<1> QED BY <1>1, LiveInit, LiveStep, PTL DEF Spec

-----------------------------------------------------------------------------
(* What each writer thinks is in the database.                              *)
WriterInv ==
  \A e \in Editors :
       /\ pc[e] = "parsed" => db = raw[e] /\ ifMatch[e] \in {NoConfig, db}
       /\ pc[e] \in {"saved", "refused"} => db = next[e]

LEMMA WriterStep ==
  ASSUME QuietImports, TypeOK, WriterInv, [Next]_vars
  PROVE  WriterInv'
<1> USE ConfigAssumption DEF WriterInv
<1>1. pc \in [Editors -> {"idle", "parsed", "saved", "refused", "restored"}]
  BY DEF TypeOK
<1>2. ASSUME NEW e \in Editors, Mutate(e)
      PROVE  WriterInv'
  <2>1. \A f \in Editors : f # e /\ pc[f] # "idle" => pc[e] = "idle" /\ writeMu # Nobody
    BY OneWriter, TypeParts DEF Writers
  <2>2. CASE Parse(e)
    <3>1. \A f \in Editors : f # e => pc'[f] = "idle"
      BY <1>1, <2>1, <2>2 DEF Parse
    <3>2. /\ pc'[e] = "parsed" /\ raw'[e] = db /\ db' = db
          /\ ifMatch'[e] \in {NoConfig, db}
      BY <1>1, <2>2, TypeParts DEF Parse, Writers, store
    <3> QED BY <1>2, <3>1, <3>2
  <2>3. CASE Save(e)
    <3>1. \A f \in Editors : f # e => pc'[f] = "idle"
      BY <1>1, <2>1, <2>3 DEF Save
    <3>2. pc'[e] = "saved" /\ db' = next'[e]
      BY <1>1, <2>3 DEF Save, Write
    <3> QED BY <1>2, <3>1, <3>2
  <2>4. CASE SaveFails(e) \/ RestoreFails(e)
    <3>1. \A f \in Editors : pc'[f] = "idle"
      BY <1>1, <2>1, <2>4 DEF SaveFails, RestoreFails, Finished
    <3> QED BY <1>2, <3>1
  <2>5. CASE Restore(e)
    <3>1. \A f \in Editors : f # e => pc'[f] = "idle"
      BY <1>1, <2>1, <2>5 DEF Restore
    <3>2. pc'[e] = "restored"
      BY <1>1, <2>5 DEF Restore
    <3> QED BY <1>2, <3>1, <3>2
  <2> QED BY <1>2, <2>2, <2>3, <2>4, <2>5 DEF Mutate
<1>3. ASSUME NEW t \in Threads, Reload(t)
      PROVE  WriterInv'
  <2>1. db' = db
    BY <1>3 DEF Reload, Load, LoadFails, Swap, Apply, ApplyFails, store
  <2>2. CASE Load(t) \/ Swap(t)
    BY <1>3, <2>1, <2>2 DEF Load, Swap, editors
  <2>3. ASSUME NEW ok \in BOOLEAN, Returned(t, ok)
        PROVE  WriterInv'
    <3>1. CASE t \in Editors /\ pc[t] = "saved" /\ ~ok
      BY <1>1, <1>3, <2>1, <2>3, <3>1 DEF Returned
    <3>2. CASE t \in Editors /\ ~(pc[t] = "saved" /\ ~ok)
      <4>1. \A f \in Editors : f # t =>
              pc'[f] = pc[f] /\ raw'[f] = raw[f] /\ next'[f] = next[f] /\ ifMatch'[f] = ifMatch[f]
        BY <2>3, <3>2, TypeParts DEF Returned, Finished, Writers
      <4>2. pc'[t] = "idle"
        BY <1>1, <2>3, <3>2 DEF Returned, Finished
      <4> QED BY <1>3, <2>1, <4>1, <4>2
    <3>3. CASE t \notin Editors
      BY <1>3, <2>1, <2>3, <3>3 DEF Returned, editors
    <3> QED BY <3>1, <3>2, <3>3
  <2> QED BY <1>3, <2>2, <2>3 DEF Reload, LoadFails, Apply, ApplyFails
<1>4. ASSUME Import
      PROVE  WriterInv'
  <2>1. \A e \in Editors : pc[e] = "idle"
    BY <1>4, TypeParts DEF Import, Writers
  <2> QED BY <1>4, <2>1 DEF Import, editors
<1>5. ASSUME CertsChange \/ CacheChanges \/ Boot
      PROVE  WriterInv'
  BY <1>5 DEF CertsChange, CacheChanges, Boot, store, editors
<1>6. ASSUME Crash
      PROVE  WriterInv'
  BY <1>6 DEF Crash
<1>7. CASE UNCHANGED vars
  BY <1>7 DEF vars, store, editors, reloading, live, outside
<1> QED BY <1>2, <1>3, <1>4, <1>5, <1>6, <1>7 DEF Next

(* A write replaces what its writer thinks is there, as long as nobody      *)
(* imports meanwhile (NoSilentOverwrite).                                   *)
THEOREM WritesAreIncremental == QuietImports /\ Spec => NoSilentOverwrite
<1>1. Init => WriterInv
  BY DEF Init, WriterInv
<1>2. TypeOK /\ WriterInv /\ [Next]_vars =>
        [\A e \in Editors :
           /\ Save(e) => db = raw[e] /\ ifMatch[e] \in {NoConfig, db}
           /\ Restore(e) => db = next[e]]_vars
  BY DEF WriterInv, Save, Restore
<1>3. QuietImports /\ TypeOK /\ WriterInv /\ [Next]_vars => WriterInv'
  BY WriterStep
<1>4. CASE QuietImports
  <2>1. TypeOK /\ WriterInv /\ [Next]_vars => WriterInv'
    BY <1>3, <1>4
  <2> QED BY <1>1, <1>2, <2>1, ConfigTypes, PTL DEF Spec, NoSilentOverwrite
<1> QED BY <1>4

(* The history has no version twice.                                         *)
NoTwins == \A k, l \in 1 .. Len(history) : history[k] = history[l] => k = l

LEMMA ArchivedNoTwins ==
  ASSUME Store, NoTwins, NEW c \in Config
  PROVE  \A k, l \in 1 .. Len(Archived(c)) : Archived(c)[k] = Archived(c)[l] => k = l
<1> USE DEF Store
<1>1. CASE \E k \in 1 .. Len(history) : history[k] = c
  BY <1>1 DEF Archived, NoTwins
<1>2. CASE ~\E k \in 1 .. Len(history) : history[k] = c
  <2> DEFINE longer == Append(history, c)
             n == Len(history)
  <2>1. /\ n \in Nat /\ longer \in Seq(Config) /\ Len(longer) = n + 1 /\ longer[n + 1] = c
        /\ \A k \in 1 .. n : longer[k] = history[k]
    OBVIOUS
  <2>2. \A k \in 1 .. n : history[k] # c
    BY <1>2
  <2>3. Archived(c) = IF n + 1 > HistoryKeep THEN Tail(longer) ELSE longer
    BY <1>2, <2>1 DEF Archived, Newest
  <2>4. ASSUME NEW k \in 1 .. n + 1, NEW l \in 1 .. n + 1, longer[k] = longer[l]
        PROVE  k = l
    <3>1. k \in 1 .. n \/ k = n + 1
      BY <2>1
    <3>2. l \in 1 .. n \/ l = n + 1
      BY <2>1
    <3> HIDE DEF longer
    <3>3. CASE k \in 1 .. n /\ l \in 1 .. n
      BY <2>1, <2>4, <3>3 DEF NoTwins
    <3> QED BY <2>1, <2>2, <2>4, <3>1, <3>2, <3>3
  <2> HIDE DEF longer
  <2>5. /\ Len(Tail(longer)) = n /\ \A k \in 1 .. n : Tail(longer)[k] = longer[k + 1]
    BY <2>1
  <2>6. ASSUME NEW k \in 1 .. n, NEW l \in 1 .. n, Tail(longer)[k] = Tail(longer)[l]
        PROVE  k = l
    <3>1. k + 1 \in 1 .. n + 1 /\ l + 1 \in 1 .. n + 1 /\ longer[k + 1] = longer[l + 1]
      BY <2>1, <2>5, <2>6
    <3>2. k + 1 = l + 1
      BY <2>4, <3>1
    <3> QED BY <2>1, <3>2
  <2> QED BY <2>1, <2>3, <2>4, <2>5, <2>6
<1> QED BY <1>1, <1>2

(* Whatever the step, the history is as it was or has what was replaced.     *)
LEMMA HistoryStep ==
  ASSUME TypeOK, [Next]_vars
  PROVE  UNCHANGED history \/ history' = Archived(db)
<1>1. CASE UNCHANGED vars \/ CertsChange \/ CacheChanges \/ Crash \/ Boot
  BY <1>1 DEF vars, store, CertsChange, CacheChanges, Crash, Boot
<1>2. ASSUME NEW t \in Threads, Reload(t) PROVE UNCHANGED history
  BY <1>2 DEF Reload, Load, LoadFails, Swap, Apply, ApplyFails, store
<1>3. ASSUME NEW e \in Editors, Mutate(e)
      PROVE  UNCHANGED history \/ history' = Archived(db)
  BY <1>3 DEF Mutate, Parse, Save, SaveFails, Restore, RestoreFails, Write, store
<1>4. CASE Import
  BY <1>4 DEF Import, Write
<1> QED BY <1>1, <1>2, <1>3, <1>4 DEF Next

LEMMA NoTwinsStep ==
  ASSUME TypeOK, NoTwins, [Next]_vars
  PROVE  NoTwins'
<1>1. CASE UNCHANGED history
  BY <1>1 DEF NoTwins
<1>2. CASE history' = Archived(db)
  BY <1>2, TypeParts, ArchivedNoTwins DEF NoTwins, Store
<1> QED BY <1>1, <1>2, HistoryStep

(* What is replaced is in the history when the step is over, which keeps no  *)
(* version twice and no more than its number (ReplacedIsKept).               *)
THEOREM ReplacedStays == Spec => ReplacedIsKept
<1> DEFINE Kept == /\ db' # db => \E k \in 1 .. Len(history') : history'[k] = db
                   /\ Len(history') <= HistoryKeep
                   /\ \A k, l \in 1 .. Len(history') : history'[k] = history'[l] => k = l
<1>1. TypeOK /\ [Next]_vars => (db' # db => \E k \in 1 .. Len(history') : history'[k] = db)
  <2> SUFFICES ASSUME TypeOK, [Next]_vars, db' # db
               PROVE  \E k \in 1 .. Len(history') : history'[k] = db
    OBVIOUS
  <2>1. history' = Archived(db)
    <3>1. CASE UNCHANGED vars \/ CertsChange \/ CacheChanges \/ Crash \/ Boot
      BY <3>1 DEF vars, store, CertsChange, CacheChanges, Crash, Boot
    <3>2. ASSUME NEW t \in Threads, Reload(t) PROVE db' = db
      BY <3>2 DEF Reload, Load, LoadFails, Swap, Apply, ApplyFails, store
    <3>3. ASSUME NEW e \in Editors, Mutate(e) PROVE history' = Archived(db)
      BY <3>3 DEF Mutate, Parse, Save, SaveFails, Restore, RestoreFails, Write, store
    <3>4. CASE Import
      BY <3>4 DEF Import, Write
    <3> QED BY <3>1, <3>2, <3>3, <3>4 DEF Next
  <2>2. \E k \in 1 .. Len(Archived(db)) : Archived(db)[k] = db
    BY TypeParts, ArchivedType DEF Store
  <2> QED BY <2>1, <2>2
<1>2. TypeOK' /\ NoTwins' => /\ Len(history') <= HistoryKeep
                             /\ \A k, l \in 1 .. Len(history') : history'[k] = history'[l] => k = l
  BY DEF TypeOK, NoTwins
<1>3. Init => NoTwins
  BY DEF Init, NoTwins
<1>4. TypeOK /\ TypeOK' /\ NoTwins /\ [Next]_vars => NoTwins' /\ [Kept]_vars
  BY <1>1, <1>2, NoTwinsStep
<1> QED BY <1>3, <1>4, ConfigTypes, PTL DEF Spec, ReplacedIsKept

-----------------------------------------------------------------------------
(* What a reload has read is there exactly while it runs, and no process has *)
(* no configuration.                                                         *)
CopyInv ==
  /\ LiveInv
  /\ mu = Nobody => cfg = NoConfig
  /\ ~up => table = NoConfig /\ tls = NoConfig

LEMMA NoneIsNone == NoConfig \notin Config
<1>1. PICK i : i \in Ids
  BY ConfigAssumption
<1>2. i \notin DOMAIN NoConfig
  BY DEF NoConfig
<1> QED BY <1>1, <1>2 DEF Config

LEMMA CopyInit == Init => CopyInv
  BY LiveInit, ConfigAssumption DEF Init, CopyInv

(* A write does nothing to the copies, whatever it does to the source.       *)
Beside == UNCHANGED <<up, reloading, live>>

LEMMA BesideKeepsCopy == ASSUME CopyInv, LiveInv', Beside PROVE CopyInv'
  BY DEF CopyInv, Beside, reloading, live

LEMMA WriteIsChange ==
  ASSUME CopyInv, TypeOK', Beside
  PROVE  [Routed!Next]_Routed!vars /\ [Secured!Next]_Secured!vars
<1>1. db' \in Config /\ UNCHANGED <<cfg, swapped, table, tls>>
  BY DEF TypeOK, Beside, reloading, live
<1> QED BY <1>1 DEF Routed!Next, Routed!Change, Secured!Next, Secured!Change

LEMMA ReloadFollows ==
  ASSUME CopyInv, NEW t \in Threads, Reload(t)
  PROVE  CopyInv' /\ [Routed!Next]_Routed!vars /\ [Secured!Next]_Secured!vars
<1>1. LiveInv' /\ t # Nobody
  BY ReloadKeepsLive, ConfigAssumption DEF CopyInv, Threads
<1>2. /\ mu = Nobody => cfg = NoConfig /\ ~swapped
      /\ mu # Nobody => cfg # NoConfig /\ up
      /\ swapped \in BOOLEAN /\ db \in Config
  BY NoneIsNone DEF CopyInv, LiveInv, TypeOK
<1>3. CASE Load(t)
  <2>1. /\ cfg = NoConfig /\ cfg' = db /\ ~swapped /\ ~swapped' /\ mu' # Nobody
        /\ UNCHANGED <<db, up, table, tls>>
    BY <1>1, <1>2, <1>3 DEF Load, store, live
  <2>2. Routed!Take /\ Secured!Take
    BY <2>1 DEF Routed!Take, Secured!Take
  <2>3. CopyInv'
    BY <1>1, <2>1 DEF CopyInv
  <2> QED BY <2>2, <2>3 DEF Routed!Next, Secured!Next
<1>4. CASE LoadFails(t)
  <2>1. UNCHANGED <<db, up, mu, cfg, swapped, table, tls>>
    BY <1>4 DEF LoadFails, store, reloading, live
  <2>2. CopyInv'
    BY <1>1, <2>1 DEF CopyInv
  <2> QED BY <2>1, <2>2 DEF Routed!vars, Secured!vars
<1>5. CASE Swap(t)
  <2>1. /\ cfg # NoConfig /\ table' = cfg /\ ~swapped /\ swapped' /\ up /\ mu' = mu /\ mu # Nobody
        /\ UNCHANGED <<db, up, cfg, tls>>
    BY <1>1, <1>2, <1>5 DEF Swap, store
  <2>2. Routed!Put /\ UNCHANGED Secured!vars
    BY <2>1 DEF Routed!Put, Secured!vars
  <2>3. CopyInv'
    BY <1>1, <2>1 DEF CopyInv
  <2> QED BY <2>2, <2>3 DEF Routed!Next
<1>6. CASE Apply(t)
  <2>1. /\ cfg # NoConfig /\ cfg' = NoConfig /\ tls' = cfg /\ swapped /\ ~swapped' /\ up
        /\ UNCHANGED <<db, up, table>>
    BY <1>1, <1>2, <1>6 DEF Apply, Leave, store
  <2>2. UNCHANGED Routed!vars /\ Secured!Put
    BY <2>1 DEF Routed!vars, Secured!Put
  <2>3. CopyInv'
    BY <1>1, <2>1 DEF CopyInv
  <2> QED BY <2>2, <2>3 DEF Secured!Next
<1>7. CASE ApplyFails(t)
  <2>1. /\ cfg # NoConfig /\ cfg' = NoConfig /\ swapped /\ ~swapped' /\ up
        /\ UNCHANGED <<db, up, table, tls>>
    BY <1>1, <1>2, <1>7 DEF ApplyFails, Leave, store, live
  <2>2. UNCHANGED Routed!vars /\ Secured!Drop
    BY <2>1 DEF Routed!vars, Secured!Drop
  <2>3. CopyInv'
    BY <1>1, <2>1 DEF CopyInv
  <2> QED BY <2>2, <2>3 DEF Secured!Next
<1> QED BY <1>3, <1>4, <1>5, <1>6, <1>7 DEF Reload

LEMMA EveryStepFollows ==
  CopyInv /\ [Next]_vars => CopyInv' /\ [Routed!Next]_Routed!vars /\ [Secured!Next]_Secured!vars
<1> SUFFICES ASSUME CopyInv, [Next]_vars
             PROVE  CopyInv' /\ [Routed!Next]_Routed!vars /\ [Secured!Next]_Secured!vars
  OBVIOUS
<1>1. LiveInv' /\ TypeOK'
  BY LiveStep DEF CopyInv, LiveInv
<1>2. CASE Beside
  BY <1>1, <1>2, BesideKeepsCopy, WriteIsChange
<1>3. ASSUME NEW e \in Editors, Mutate(e) PROVE Beside
  BY <1>3 DEF Mutate, Parse, Save, SaveFails, Restore, RestoreFails, Beside
<1>4. CASE Import \/ CertsChange \/ CacheChanges \/ UNCHANGED vars
  BY <1>2, <1>4 DEF Import, CertsChange, CacheChanges, vars, Beside
<1>5. CASE Crash
  <2>1. /\ ~up' /\ mu' = Nobody /\ cfg' = NoConfig /\ ~swapped' /\ table' = NoConfig
        /\ tls' = NoConfig /\ db' = db
    BY <1>5 DEF Crash, Leave, store
  <2>2. Routed!Stop /\ Secured!Stop
    BY <2>1 DEF Routed!Stop, Secured!Stop
  <2>3. CopyInv'
    BY <1>1, <2>1 DEF CopyInv
  <2> QED BY <2>2, <2>3 DEF Routed!Next, Secured!Next
<1>6. CASE Boot
  <2>1. /\ ~up /\ up' /\ table' = db /\ tls' = db /\ UNCHANGED <<db, mu, cfg, swapped>>
        /\ table = NoConfig /\ tls = NoConfig /\ cfg = NoConfig
    BY <1>6 DEF Boot, store, reloading, CopyInv, LiveInv
  <2>2. Routed!Start /\ Secured!Start
    BY <2>1 DEF Routed!Start, Secured!Start
  <2>3. CopyInv'
    BY <1>1, <2>1 DEF CopyInv
  <2> QED BY <2>2, <2>3 DEF Routed!Next, Secured!Next
<1> QED BY <1>2, <1>3, <1>4, <1>5, <1>6, ReloadFollows DEF Next

(* Requests are routed, and certificates managed, by configurations that the *)
(* database had, one after the other in the order they were read, for any    *)
(* number of editors and reloads (App.reload, main.go:273).                  *)
THEOREM ReloadsServeInOrder == Spec => ServesInOrder
<1>1. Init => Routed!Init /\ Secured!Init
  BY ConfigAssumption DEF Init, Routed!Init, Secured!Init
<1>2. Spec => Routed!Spec
  BY <1>1, CopyInit, EveryStepFollows, PTL DEF Spec, Routed!Spec
<1>3. Spec => Secured!Spec
  BY <1>1, CopyInit, EveryStepFollows, PTL DEF Spec, Secured!Spec
<1> QED BY <1>2, <1>3 DEF ServesInOrder
=============================================================================
