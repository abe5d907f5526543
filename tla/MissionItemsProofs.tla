------------------------- MODULE MissionItemsProofs -------------------------
(***************************************************************************)
(* The upload's mutex, the atomic replacement of a fence, types, and that  *)
(* what is accepted is what was sent, for any ground stations, lengths of  *)
(* the links' queues, numbers of items, uploads and losses.                *)
(***************************************************************************)
EXTENDS MissionItems, SequenceTheorems, TLAPS

----------------------------------------------------------------------------
(* The protocol object has all its fields, and asks for an item of the     *)
(* upload; a message asks for items by their numbers.                      *)
Fields == {"receiving", "dest", "next", "first", "last", "items", "partial", "unheard"}

UploadShape ==
    /\ DOMAIN upload = Fields
    /\ upload = [f \in Fields |-> upload[f]]
    /\ upload.next \in Int /\ upload.last \in Int
    /\ upload.receiving => upload.next <= upload.last

Types == {"count", "clear", "partial", "item", "request_list", "request_int", "request"}

(* What uploads say: the id of an upload, and numbers that exist.          *)
Bounded(m) ==
    /\ m.type \in {"count", "partial", "item"} => m.id \in 1..MaxUploads
    /\ m.type = "item" => m.a \in 0..MaxItems

Messages == {m \in [type : Types, id : Nat, a : Int, b : Int, tag : Faults \cup {"none"}] :
               Bounded(m)}

Stations == {s \in [up : BOOLEAN, id : Nat, first : Int, last : Int] :
               s.up => s.id \in 1..MaxUploads /\ s.first \in Nat /\ s.last <= MaxItems}

MissionInv ==
    /\ UploadShape
    /\ toFc \in [Gcs -> Seq(Messages)]
    /\ station \in [Gcs -> Stations]
    /\ uploads \in 0..MaxUploads

----------------------------------------------------------------------------
LEMMA NoUploadShape ==
  ASSUME upload' = NoUpload
  PROVE  UploadShape'
BY DEF NoUpload, UploadShape, Fields

LEMMA InitSendRequestsShape ==
  ASSUME NEW g, NEW first \in Int, NEW last \in Int, NEW partial, NEW n,
         first <= last, InitSendRequests(g, first, last, partial, n)
  PROVE  UploadShape'
BY DEF InitSendRequests, UploadShape, Fields

LEMMA UnheardShape ==
  ASSUME UploadShape, NEW u, upload' = [upload EXCEPT !.unheard = u]
  PROVE  UploadShape' /\ upload'.receiving = upload.receiving
         /\ upload'.dest = upload.dest /\ upload'.next = upload.next
BY DEF UploadShape, Fields

LEMMA ItemAndNextShape ==
  ASSUME UploadShape, NEW g, NEW m, ItemAndNext(g, m)
  PROVE  UploadShape' /\ upload'.receiving = upload.receiving /\ upload'.dest = upload.dest
<1> DEFINE items == IF kind = "fence" THEN WithItem(upload.items, m) ELSE upload.items
<1>1. /\ upload' = [upload EXCEPT !.next = upload.next + 1, !.items = items]
      /\ upload.next < upload.last
  BY DEF ItemAndNext
<1> HIDE DEF items
<1>2. /\ DOMAIN upload' = Fields
      /\ upload'.next = upload.next + 1 /\ upload'.items = items
      /\ \A f \in Fields \ {"next", "items"} : upload'[f] = upload[f]
  BY <1>1 DEF UploadShape, Fields
<1>3. upload' = [f \in Fields |-> upload'[f]]
  BY <1>1 DEF UploadShape, Fields
<1>4. /\ upload'.receiving = upload.receiving /\ upload'.dest = upload.dest
      /\ upload'.last = upload.last
  BY <1>2 DEF Fields
<1>5. upload.next \in Int /\ upload.last \in Int
  BY DEF UploadShape
<1>6. upload'.next \in Int /\ upload'.last \in Int /\ upload'.next <= upload'.last
  BY <1>1, <1>2, <1>4, <1>5
<1> QED
  BY <1>2, <1>3, <1>4, <1>6 DEF UploadShape

(* A message handled leaves the protocol object in shape.                  *)
LEMMA FcReceivesShape ==
  ASSUME MissionInv, NEW g \in Gcs, FcReceives(g)
  PROVE  UploadShape'
<1> DEFINE m == Head(toFc[g])
<1>1. m.a \in Int /\ m.b \in Int
  <2>1. toFc[g] \in Seq(Messages) /\ toFc[g] # <<>>
    BY DEF MissionInv, FcReceives
  <2>2. m \in Messages
    BY <2>1
  <2> QED
    BY <2>2 DEF Messages
<1>2. UploadShape
  BY DEF MissionInv
<1> HIDE DEF m
<1>3. CASE UNCHANGED upload
  BY <1>2, <1>3 DEF UploadShape
<1>4. CASE upload' = NoUpload
  BY <1>4, NoUploadShape
<1>5. CASE MissionCount(g, m)
  <2>1. CASE \E n : m.a \in 1..MaxItems /\ InitSendRequests(g, 0, m.a - 1, FALSE, n)
    <3>1. m.a - 1 \in Int /\ 0 \in Int /\ 0 <= m.a - 1
      BY <1>1, <2>1, MissionAssumption
    <3>2. PICK n : InitSendRequests(g, 0, m.a - 1, FALSE, n)
      BY <2>1
    <3> HIDE DEF InitSendRequests
    <3> QED
      BY <3>1, <3>2, InitSendRequestsShape
  <2> QED
    BY <1>3, <1>4, <1>5, <2>1 DEF MissionCount, Refuse, End, fcVars
<1>6. CASE MissionClearAll(g)
  BY <1>3, <1>4, <1>6 DEF MissionClearAll, Refuse, End, fcVars
<1>7. CASE WritePartialList(g, m)
  <2>1. CASE m.a <= m.b /\ InitSendRequests(g, m.a, m.b, TRUE, ItemCount)
    BY <1>1, <2>1, InitSendRequestsShape
  <2>2. CASE upload' = [upload EXCEPT !.unheard = @ \/ upload.dest = g]
    BY <1>2, <2>2, UnheardShape
  <2> QED
    BY <1>7, <2>1, <2>2 DEF WritePartialList
<1>8. CASE MissionItem(g, m)
  <2>1. CASE ItemAndNext(g, m)
    BY <1>2, <2>1, ItemAndNextShape
  <2> QED
    BY <1>3, <1>4, <1>8, <2>1 DEF MissionItem, ItemFails, LastItem, Refuse, End, fcVars
<1>9. CASE MissionRequestList(g) \/ MissionRequestInt(g, m) \/ MissionRequest(g, m)
  BY <1>3, <1>9 DEF MissionRequestList, MissionRequestInt, MissionRequest, fcVars
<1> QED
  BY <1>5, <1>6, <1>7, <1>8, <1>9 DEF FcReceives, m

----------------------------------------------------------------------------
(* What a station says is a message.                                       *)
LEMMA SaysTyped ==
  ASSUME toFc \in [Gcs -> Seq(Messages)], NEW g \in Gcs, NEW m \in Messages, Says(g, m)
  PROVE  toFc' \in [Gcs -> Seq(Messages)]
BY DEF Says

LEMMA MissionInvInit == MissionInit => MissionInv
<1> SUFFICES ASSUME MissionInit PROVE MissionInv
  OBVIOUS
<1>1. UploadShape
  BY DEF MissionInit, NoUpload, UploadShape, Fields
<1>2. toFc \in [Gcs -> Seq(Messages)]
  BY DEF MissionInit
<1>3. Resting \in Stations
  BY DEF Resting, Stations
<1> QED
  BY <1>1, <1>2, <1>3, MissionAssumption DEF MissionInit, MissionInv

LEMMA MissionInvStep ==
  ASSUME MissionInv, [MissionNext]_missionVars
  PROVE  MissionInv'
<1>0. /\ UploadShape /\ toFc \in [Gcs -> Seq(Messages)]
      /\ station \in [Gcs -> Stations] /\ uploads \in 0..MaxUploads
      /\ Resting \in Stations
  BY DEF MissionInv, Resting, Stations
<1>1. ASSUME NEW g \in Gcs, FcReceives(g)
      PROVE  MissionInv'
  <2>1. toFc' \in [Gcs -> Seq(Messages)]
    <3>1. toFc[g] \in Seq(Messages) /\ toFc[g] # <<>>
      BY <1>0, <1>1 DEF FcReceives
    <3> QED
      BY <1>0, <1>1, <3>1 DEF FcReceives
  <2> QED
    BY <1>0, <1>1, <2>1, FcReceivesShape DEF FcReceives, MissionInv
<1>2. ASSUME NEW g \in Gcs, StationUploads(g)
      PROVE  MissionInv'
  <2>1. uploads' \in Nat /\ uploads' \in 1..MaxUploads /\ UNCHANGED upload
    BY <1>0, <1>2, MissionAssumption DEF StationUploads, fcVars
  <2>2. UploadShape'
    BY <1>0, <2>1 DEF UploadShape
  <2>3. CASE \E n \in 0..(MaxItems + 1) :
               /\ Says(g, Msg("count", uploads', n, 0, "none"))
               /\ station' = [station EXCEPT ![g] =
                    [up |-> TRUE, id |-> uploads', first |-> 0, last |-> n - 1]]
    <3>1. PICK n \in 0..(MaxItems + 1) :
               /\ Says(g, Msg("count", uploads', n, 0, "none"))
               /\ station' = [station EXCEPT ![g] =
                    [up |-> TRUE, id |-> uploads', first |-> 0, last |-> n - 1]]
      BY <2>3
    <3>2. n \in Int /\ n - 1 \in Int /\ n - 1 <= MaxItems
      BY MissionAssumption
    <3>3. Msg("count", uploads', n, 0, "none") \in Messages
      BY <2>1, <3>2 DEF Msg, Messages, Types, Bounded
    <3>4. toFc' \in [Gcs -> Seq(Messages)]
      BY <1>0, <3>1, <3>3, SaysTyped
    <3>5. station' \in [Gcs -> Stations]
      BY <1>0, <2>1, <3>1, <3>2 DEF Stations
    <3> QED
      BY <2>1, <2>2, <3>4, <3>5 DEF MissionInv
  <2>4. CASE \E first \in PartialStarts : \E last \in 0..MaxItems :
               /\ Says(g, Msg("partial", uploads', first, last, "none"))
               /\ station' = [station EXCEPT ![g] =
                    [up |-> TRUE, id |-> uploads', first |-> first, last |-> last]]
    <3>1. PICK first \in PartialStarts, last \in 0..MaxItems :
               /\ Says(g, Msg("partial", uploads', first, last, "none"))
               /\ station' = [station EXCEPT ![g] =
                    [up |-> TRUE, id |-> uploads', first |-> first, last |-> last]]
      BY <2>4
    <3>2. first \in Int /\ first \in Nat /\ last \in Int /\ last <= MaxItems
      BY MissionAssumption
    <3>3. Msg("partial", uploads', first, last, "none") \in Messages
      BY <2>1, <3>2 DEF Msg, Messages, Types, Bounded
    <3>4. toFc' \in [Gcs -> Seq(Messages)]
      BY <1>0, <3>1, <3>3, SaysTyped
    <3>5. station' \in [Gcs -> Stations]
      BY <1>0, <2>1, <3>1, <3>2 DEF Stations
    <3> QED
      BY <2>1, <2>2, <3>4, <3>5 DEF MissionInv
  <2>5. CASE Says(g, Msg("clear", uploads', 0, 0, "none")) /\ UNCHANGED station
    <3>1. Msg("clear", uploads', 0, 0, "none") \in Messages
      BY <2>1 DEF Msg, Messages, Types, Bounded
    <3>2. toFc' \in [Gcs -> Seq(Messages)]
      BY <1>0, <2>5, <3>1, SaysTyped
    <3> QED
      BY <1>0, <2>1, <2>2, <2>5, <3>2 DEF MissionInv
  <2> QED
    BY <1>2, <2>3, <2>4, <2>5 DEF StationUploads
<1>3. ASSUME NEW g \in Gcs, StationDownloads(g)
      PROVE  MissionInv'
  <2>1. uploads' \in 0..MaxUploads /\ UNCHANGED <<upload, station>>
    BY <1>0, <1>3, MissionAssumption DEF StationDownloads, fcVars
  <2>2. PICK type \in {"request_list", "request_int", "request"} :
          Says(g, Msg(type, 0, 0, 0, "none"))
    BY <1>3 DEF StationDownloads
  <2>3. Msg(type, 0, 0, 0, "none") \in Messages
    BY DEF Msg, Messages, Types, Bounded
  <2>4. toFc' \in [Gcs -> Seq(Messages)]
    BY <1>0, <2>2, <2>3, SaysTyped
  <2> QED
    BY <1>0, <2>1, <2>4 DEF MissionInv, UploadShape
<1>4. ASSUME NEW g \in Gcs, StationReceives(g)
      PROVE  MissionInv'
  <2> DEFINE m == Head(toGcs[g])
  <2>1. UNCHANGED <<upload, uploads>>
    BY <1>4 DEF StationReceives, fcVars
  <2>2. CASE station[g].up /\ m.a \in station[g].first..station[g].last
             /\ (\E fault \in Faults : Says(g, Msg("item", station[g].id, m.a, 0, fault)))
             /\ UNCHANGED station
    <3>1. PICK fault \in Faults : Says(g, Msg("item", station[g].id, m.a, 0, fault))
      BY <2>2
    <3>2. m.a \in 0..MaxItems /\ station[g].id \in 1..MaxUploads
      <4>1. station[g] \in Stations
        BY <1>0
      <4> HIDE DEF m
      <4> QED BY <2>2, <4>1, MissionAssumption DEF Stations
    <3>3. Msg("item", station[g].id, m.a, 0, fault) \in Messages
      <4> HIDE DEF m
      <4> QED BY <3>2, MissionAssumption DEF Msg, Messages, Types, Bounded
    <3>4. toFc' \in [Gcs -> Seq(Messages)]
      BY <1>0, <3>1, <3>3, SaysTyped
    <3> QED
      BY <1>0, <2>1, <2>2, <3>4 DEF MissionInv, UploadShape
  <2>3. CASE /\ station' = IF m.type = "ack" THEN [station EXCEPT ![g] = Resting] ELSE station
             /\ UNCHANGED toFc
    <3>1. station' \in [Gcs -> Stations]
      BY <1>0, <2>3
    <3> QED
      BY <1>0, <2>1, <2>3, <3>1 DEF MissionInv, UploadShape
  <2> QED
    BY <1>4, <2>2, <2>3 DEF StationReceives
<1>5. ASSUME NEW g \in Gcs, StationGivesUp(g)
      PROVE  MissionInv'
  <2>1. UNCHANGED <<upload, toFc, uploads>> /\ station' = [station EXCEPT ![g] = Resting]
    BY <1>5 DEF StationGivesUp, fcVars
  <2>2. station' \in [Gcs -> Stations]
    BY <1>0, <2>1
  <2> QED
    BY <1>0, <2>1, <2>2 DEF MissionInv, UploadShape
<1>6. ASSUME NEW g \in Gcs, LinkLoses(g)
      PROVE  MissionInv'
  <2>1. UNCHANGED <<station, uploads>>
    BY <1>6 DEF LinkLoses
  <2>2. CASE toFc[g] # <<>> /\ toFc' = [toFc EXCEPT ![g] = Tail(@)]
             /\ upload' = [upload EXCEPT !.unheard =
                  @ \/ (upload.dest = g /\ Head(toFc[g]).type \in {"count", "partial"})]
    <3>1. toFc' \in [Gcs -> Seq(Messages)]
      BY <1>0, <2>2
    <3> QED
      BY <1>0, <2>1, <2>2, <3>1, UnheardShape DEF MissionInv
  <2>3. CASE UNCHANGED <<toFc, upload>>
    BY <1>0, <2>1, <2>3 DEF MissionInv, UploadShape
  <2> QED
    BY <1>6, <2>2, <2>3 DEF LinkLoses
<1>7. CASE UploadTimesOut
  <2>1. upload' = NoUpload /\ UNCHANGED <<toFc, station, uploads>>
    BY <1>7 DEF UploadTimesOut
  <2> QED
    BY <1>0, <2>1, NoUploadShape DEF MissionInv
<1>8. CASE Resend \/ QueuedRequestSend \/ MissionClock \/ UNCHANGED missionVars
  <2>1. UNCHANGED <<upload, toFc, station, uploads>>
    BY <1>8 DEF Resend, QueuedRequestSend, MissionClock, missionVars, fcVars
  <2> QED
    BY <1>0, <2>1 DEF MissionInv, UploadShape
<1> QED
  BY <1>1, <1>2, <1>3, <1>4, <1>5, <1>6, <1>7, <1>8 DEF MissionNext

(* Every message on its way is one the protocol has, and while an upload   *)
(* runs its link, its next item and its count are set: the shape every     *)
(* handler and update() leave the transfer in.                             *)
THEOREM MissionInvariant == MissionSpec => []MissionInv
<1>1. MissionInv /\ [MissionNext]_missionVars => MissionInv'
  BY MissionInvStep
<1> QED
  BY MissionInvInit, <1>1, PTL DEF MissionSpec

----------------------------------------------------------------------------
(* The mutex: what a station other than the uploader says changes nothing  *)
(* that counts.                                                            *)
LEMMA OthersAreDenied ==
  ASSUME MissionInv, upload.receiving, NEW g \in Gcs, g # upload.dest, FcReceives(g)
  PROVE  stored' = stored /\ upload'.dest = upload.dest /\ upload'.next = upload.next
<1> DEFINE m == Head(toFc[g])
<1> HIDE DEF m
<1>1. ~MayStart(g) /\ ~Expected(g, m) /\ UploadShape
  BY DEF MayStart, Expected, MissionInv
<1>2. CASE UNCHANGED <<stored, upload>>
  BY <1>2
<1>3. CASE MissionCount(g, m) \/ MissionClearAll(g) \/ MissionItem(g, m)
  BY <1>1, <1>2, <1>3 DEF MissionCount, MissionClearAll, MissionItem, Refuse, fcVars
<1>4. CASE WritePartialList(g, m)
  <2>1. /\ upload' = [upload EXCEPT !.unheard = @ \/ upload.dest = g]
        /\ UNCHANGED stored
    BY <1>4 DEF WritePartialList
  <2> QED
    BY <1>1, <2>1, UnheardShape
<1>5. CASE MissionRequestList(g) \/ MissionRequestInt(g, m) \/ MissionRequest(g, m)
  BY <1>2, <1>5 DEF MissionRequestList, MissionRequestInt, MissionRequest, fcVars
<1> QED
  BY <1>3, <1>4, <1>5 DEF FcReceives, m

LEMMA MutexStep ==
  ASSUME MissionInv, [MissionNext]_missionVars, upload.receiving
  PROVE  \/ stored' = stored /\ upload'.dest = upload.dest /\ upload'.next = upload.next
         \/ HandlesMessageOf(upload.dest)
         \/ sinceItem > UploadTimeout /\ upload' = NoUpload /\ stored' = stored
<1>1. CASE UNCHANGED <<stored, upload>>
  BY <1>1
<1>2. ASSUME NEW g \in Gcs, FcReceives(g)
      PROVE  \/ stored' = stored /\ upload'.dest = upload.dest /\ upload'.next = upload.next
             \/ HandlesMessageOf(upload.dest)
  <2>1. CASE g = upload.dest
    BY <1>2, <2>1 DEF FcReceives, HandlesMessageOf
  <2>2. CASE g # upload.dest
    BY <1>2, <2>2, OthersAreDenied
  <2> QED
    BY <2>1, <2>2
<1>3. ASSUME NEW g \in Gcs, StationUploads(g) \/ StationDownloads(g)
                           \/ StationReceives(g) \/ StationGivesUp(g)
      PROVE  UNCHANGED <<stored, upload>>
  BY <1>3 DEF StationUploads, StationDownloads, StationReceives, StationGivesUp, fcVars
<1>4. ASSUME NEW g \in Gcs, LinkLoses(g)
      PROVE  stored' = stored /\ upload'.dest = upload.dest /\ upload'.next = upload.next
  <2>1. stored' = stored /\ UploadShape
    BY <1>4 DEF LinkLoses, MissionInv
  <2>2. \/ UNCHANGED upload
        \/ \E u : upload' = [upload EXCEPT !.unheard = u]
    BY <1>4 DEF LinkLoses
  <2> QED
    BY <2>1, <2>2, UnheardShape
<1>5. CASE UploadTimesOut
  BY <1>5 DEF UploadTimesOut, TimedOut
<1>6. CASE Resend \/ QueuedRequestSend \/ MissionClock \/ UNCHANGED missionVars
  BY <1>1, <1>6 DEF Resend, QueuedRequestSend, MissionClock, missionVars, fcVars
<1> QED
  BY <1>1, <1>2, <1>3, <1>4, <1>5, <1>6 DEF MissionNext

(* While one station uploads, nothing another one says, no loss and no     *)
(* give-up changes the store or what is expected next.                     *)
THEOREM UploadIsMutex == MissionSpec => Mutex
<1>1. MissionInv /\ [MissionNext]_missionVars =>
        [upload.receiving /\ <<stored', upload'.dest, upload'.next>> #
                             <<stored, upload.dest, upload.next>> =>
           \/ HandlesMessageOf(upload.dest)
           \/ sinceItem > UploadTimeout /\ upload' = NoUpload /\ stored' = stored]_missionVars
  BY MutexStep
<1> QED
  BY <1>1, MissionInvariant, PTL DEF MissionSpec, Mutex

----------------------------------------------------------------------------
(* A fence is written by the last item of an upload, or cleared.           *)
LEMMA FenceWritten ==
  ASSUME MissionInv, kind = "fence", NEW g \in Gcs, FcReceives(g), stored' # stored
  PROVE  /\ upload' = NoUpload
         /\ stored' = <<>> \/ (upload.receiving /\ upload.next = upload.last)
<1> DEFINE m == Head(toFc[g])
<1> HIDE DEF m
<1>1. CASE MissionCount(g, m)
  BY <1>1 DEF MissionCount, Refuse, End, Truncated, fcVars
<1>2. CASE MissionClearAll(g)
  BY <1>2 DEF MissionClearAll, Refuse, End, fcVars
<1>3. CASE MissionItem(g, m)
  <2>1. upload.receiving /\ LastItem(g, m)
    BY <1>3 DEF MissionItem, ItemFails, ItemAndNext, Refuse, fcVars
  <2>2. upload' = NoUpload /\ upload.next >= upload.last
    BY <2>1 DEF LastItem, End
  <2>3. upload.next = upload.last
    BY <2>1, <2>2 DEF MissionInv, UploadShape
  <2> QED
    BY <2>1, <2>2, <2>3
<1>4. CASE WritePartialList(g, m) \/ MissionRequestList(g)
             \/ MissionRequestInt(g, m) \/ MissionRequest(g, m)
  BY <1>4 DEF WritePartialList, MissionRequestList, MissionRequestInt, MissionRequest, fcVars
<1> QED
  BY <1>1, <1>2, <1>3, <1>4 DEF FcReceives, m

LEMMA FenceStep ==
  ASSUME MissionInv, [MissionNext]_missionVars, kind = "fence", stored' # stored
  PROVE  /\ upload' = NoUpload
         /\ stored' = <<>> \/ (upload.receiving /\ upload.next = upload.last)
<1>1. ASSUME NEW g \in Gcs, ~FcReceives(g),
             StationUploads(g) \/ StationDownloads(g) \/ StationReceives(g)
               \/ StationGivesUp(g) \/ LinkLoses(g)
      PROVE  FALSE
  BY <1>1 DEF StationUploads, StationDownloads, StationReceives, StationGivesUp,
              LinkLoses, fcVars
<1>2. CASE UploadTimesOut \/ Resend \/ QueuedRequestSend \/ MissionClock
             \/ UNCHANGED missionVars
  BY <1>2 DEF UploadTimesOut, Resend, QueuedRequestSend, MissionClock, missionVars, fcVars
<1> QED
  BY <1>1, <1>2, FenceWritten DEF MissionNext

(* A fence changes at the end of an upload, in one step, or not at all:    *)
(* with time-outs, losses and refused items wherever they come.            *)
THEOREM FenceIsAtomic == MissionSpec => FenceAtomic
<1>1. MissionInv /\ [MissionNext]_missionVars =>
        [kind = "fence" /\ stored' # stored =>
           /\ upload' = NoUpload
           /\ stored' = <<>> \/ (upload.receiving /\ upload.next = upload.last)]_missionVars
  BY FenceStep
<1> QED
  BY <1>1, MissionInvariant, PTL DEF MissionSpec, FenceAtomic

----------------------------------------------------------------------------
(* The fields of the protocol object that a step leaves as they are.       *)
LEMMA UnheardKeeps ==
  ASSUME UploadShape, NEW u, upload' = [upload EXCEPT !.unheard = u]
  PROVE  /\ upload'.receiving = upload.receiving /\ upload'.dest = upload.dest
         /\ upload'.next = upload.next /\ upload'.first = upload.first
         /\ upload'.last = upload.last /\ upload'.items = upload.items
         /\ upload'.partial = upload.partial /\ upload'.unheard = u
BY DEF UploadShape, Fields

LEMMA NextKeeps ==
  ASSUME UploadShape, NEW g, NEW m, ItemAndNext(g, m)
  PROVE  /\ upload'.receiving = upload.receiving /\ upload'.dest = upload.dest
         /\ upload'.next = upload.next + 1 /\ upload'.first = upload.first
         /\ upload'.last = upload.last /\ upload'.partial = upload.partial
         /\ upload'.unheard = upload.unheard
         /\ upload'.items = IF kind = "fence" THEN WithItem(upload.items, m) ELSE upload.items
<1> DEFINE items == IF kind = "fence" THEN WithItem(upload.items, m) ELSE upload.items
<1>1. upload' = [upload EXCEPT !.next = upload.next + 1, !.items = items]
  BY DEF ItemAndNext
<1> HIDE DEF items
<1>2. /\ upload'.next = upload.next + 1 /\ upload'.items = items
      /\ \A f \in Fields \ {"next", "items"} : upload'[f] = upload[f]
  BY <1>1 DEF UploadShape, Fields
<1> QED
  BY <1>2 DEF Fields, items

(* An item put in its place.                                               *)
LEMMA WithItemTyped ==
  ASSUME NEW S, NEW q \in Seq(S), NEW m, m.a \in Nat, m.a <= Len(q), Item(m.id, m.a) \in S
  PROVE  /\ WithItem(q, m) \in Seq(S)
         /\ Len(WithItem(q, m)) = IF m.a < Len(q) THEN Len(q) ELSE m.a + 1
         /\ WithItem(q, m)[m.a + 1] = Item(m.id, m.a)
         /\ \A i \in DOMAIN q : i # m.a + 1 => WithItem(q, m)[i] = q[i]
<1> DEFINE item == Item(m.id, m.a)
<1>1. CASE m.a < Len(q)
  <2>1. WithItem(q, m) = [q EXCEPT ![m.a + 1] = item]
    BY <1>1 DEF WithItem, ReplaceItem
  <2>2. m.a + 1 \in 1..Len(q) /\ item \in S
    BY <1>1
  <2> HIDE DEF item
  <2>3. /\ [q EXCEPT ![m.a + 1] = item] \in Seq(S)
        /\ Len([q EXCEPT ![m.a + 1] = item]) = Len(q)
    BY <2>2
  <2> QED
    BY <1>1, <2>1, <2>2, <2>3 DEF item
<1>2. CASE m.a = Len(q)
  <2>1. WithItem(q, m) = Append(q, item)
    BY <1>2 DEF WithItem, AppendItem
  <2> HIDE DEF item
  <2>2. item \in S
    BY DEF item
  <2>3. /\ Append(q, item) \in Seq(S) /\ Len(Append(q, item)) = m.a + 1
        /\ Append(q, item)[m.a + 1] = item
        /\ \A i \in DOMAIN q : Append(q, item)[i] = q[i]
    BY <1>2, <2>2
  <2> QED
    BY <1>2, <2>1, <2>3 DEF item
<1> QED
  BY <1>1, <1>2

----------------------------------------------------------------------------
(* Types.                                                                  *)
Items == (0..MaxUploads) \X (0..MaxItems)

Answers == [type : {"ack", "request", "reply"}, id : Nat, a : Int, b : Int,
            tag : {"none", "refused", "accepted", "cancelled"}]

StoreTypes ==
    /\ stored \in Seq(Items) /\ Len(stored) <= MaxItems + 1
    /\ upload.items \in Seq(Items) /\ Len(upload.items) <= MaxItems + 1
    /\ upload.first \in Int
    /\ upload.receiving <=> upload.dest \in Gcs
    /\ kind = "fence" /\ upload.receiving /\ upload.partial => Len(upload.items) = Len(stored)
    /\ sinceItem \in 0..(UploadTimeout + 1) /\ sinceRequest \in 0..(RequestTimeout + 1)

AnswersFit ==
    /\ toGcs \in [Gcs -> Seq(Answers)]
    /\ \A g \in Gcs : Len(toGcs[g]) <= QueueLength

LinksFit == AnswersFit /\ \A g \in Gcs : Len(toFc[g]) <= QueueLength

LEMMA BlankTyped == Blank \in Items
BY MissionAssumption DEF Blank, Item, Items

LEMMA NoUploadTyped ==
  /\ NoUpload.items \in Seq(Items) /\ Len(NoUpload.items) = 0 /\ NoUpload.first = 0
  /\ ~NoUpload.receiving /\ NoUpload.dest \notin Gcs
BY MissionAssumption DEF NoUpload

LEMMA StoreTypesInit == MissionInit => StoreTypes /\ LinksFit
<1> SUFFICES ASSUME MissionInit PROVE StoreTypes /\ LinksFit
  OBVIOUS
<1>1. StoreTypes
  BY NoUploadTyped, MissionAssumption DEF MissionInit, StoreTypes
<1>2. LinksFit
  BY MissionAssumption DEF MissionInit, LinksFit, AnswersFit
<1> QED BY <1>1, <1>2

LEMMA ItemCountFits ==
  ASSUME StoreTypes
  PROVE  Target \in Seq(Items) /\ ItemCount \in Nat /\ ItemCount <= MaxItems + 1
BY MissionAssumption DEF StoreTypes, ItemCount, Target

(* An upload begins.                                                       *)
LEMMA BeginTyped ==
  ASSUME NEW g \in Gcs, NEW first \in Int, NEW last, NEW partial, NEW n \in Nat, n <= MaxItems + 1,
         InitSendRequests(g, first, last, partial, n), stored' \in Seq(Items),
         Len(stored') <= MaxItems + 1, kind' = kind, partial => n = Len(stored')
  PROVE  StoreTypes'
<1>1. /\ upload' = [receiving |-> TRUE, dest |-> g, next |-> first, first |-> first,
                    last |-> last, partial |-> partial, unheard |-> FALSE,
                    items |-> IF kind = "fence" THEN [i \in 1..n |-> Blank] ELSE <<>>]
      /\ sinceItem' = 0 /\ sinceRequest' = 0
  BY DEF InitSendRequests
<1>2. [i \in 1..n |-> Blank] \in Seq(Items) /\ Len([i \in 1..n |-> Blank]) = n
  <2> HIDE DEF Items
  <2> QED BY BlankTyped
<1>3. upload'.items \in Seq(Items) /\ Len(upload'.items) <= MaxItems + 1
  BY <1>1, <1>2, MissionAssumption
<1>4. kind' = "fence" /\ partial => Len(upload'.items) = Len(stored')
  BY <1>1, <1>2
<1>5. upload'.receiving /\ upload'.dest = g /\ upload'.first = first /\ upload'.partial = partial
  BY <1>1
<1> QED
  BY <1>1, <1>3, <1>4, <1>5, MissionAssumption DEF StoreTypes

(* An upload ends.                                                         *)
LEMMA EndTyped ==
  ASSUME StoreTypes, upload' = NoUpload, UNCHANGED timers, stored' \in Seq(Items),
         Len(stored') <= MaxItems + 1
  PROVE  StoreTypes'
BY NoUploadTyped, MissionAssumption DEF StoreTypes, timers

LEMMA TruncatedTyped ==
  ASSUME StoreTypes, NEW n \in 1..MaxItems
  PROVE  /\ Truncated(n) \in Seq(Items) /\ Len(Truncated(n)) <= MaxItems + 1
         /\ kind # "fence" => Len(Truncated(n)) <= n
<1>1. stored \in Seq(Items) /\ Len(stored) <= MaxItems + 1 /\ n \in Nat
  BY MissionAssumption DEF StoreTypes
<1>2. CASE n >= Len(stored) \/ kind = "fence"
  BY <1>1, <1>2 DEF Truncated
<1>3. CASE n < Len(stored) /\ kind # "fence"
  <2>1. Truncated(n) = SubSeq(stored, 1, n)
    BY <1>3 DEF Truncated
  <2>2. \A i \in 1..n : stored[i] \in Items
    BY <1>1, <1>3
  <2>3. SubSeq(stored, 1, n) \in Seq(Items) /\ Len(SubSeq(stored, 1, n)) = n
    BY <1>1, <2>2, SubSeqProperties
  <2> QED BY <1>1, <2>1, <2>3, MissionAssumption
<1> QED BY <1>1, <1>2, <1>3

(* What a fence's upload brought, or what was there.                       *)
LEMMA CompletedTyped ==
  ASSUME NEW S, NEW q \in Seq(S), stored \in Seq(S),
         kind = "fence" /\ upload.partial => Len(q) = Len(stored)
  PROVE  Completed(q) \in Seq(S) /\ Len(Completed(q)) = Len(q)
         /\ \A i \in DOMAIN q : q[i] # Blank => Completed(q)[i] = q[i]
<1>1. CASE kind = "fence" /\ upload.partial
  <2>1. \A i \in 1..Len(q) : q[i] \in S /\ stored[i] \in S
    BY <1>1
  <2>2. Completed(q) = [i \in 1..Len(q) |-> IF q[i] = Blank THEN stored[i] ELSE q[i]]
    BY <1>1 DEF Completed
  <2> QED BY <2>1, <2>2
<1>2. CASE ~(kind = "fence" /\ upload.partial)
  BY <1>2 DEF Completed
<1> QED BY <1>1, <1>2

(* What a station said that is handled.                                    *)
LEMMA HandledTyped ==
  ASSUME MissionInv, NEW g \in Gcs, FcReceives(g)
  PROVE  Head(toFc[g]) \in Messages /\ kind' = kind
BY DEF MissionInv, FcReceives

(* An item taken.                                                          *)
LEMMA TakenTyped ==
  ASSUME StoreTypes, NEW m \in Messages, m.type = "item", ~ItemRefused(m)
  PROVE  /\ m.a \in Nat /\ m.a <= Len(Target) /\ m.a <= MaxItems /\ Target \in Seq(Items)
         /\ WithItem(Target, m) \in Seq(Items)
         /\ Len(WithItem(Target, m)) = IF m.a < Len(Target) THEN Len(Target) ELSE m.a + 1
         /\ Len(WithItem(Target, m)) <= MaxItems + 1
         /\ kind = "fence" => Len(WithItem(Target, m)) = Len(Target)
         /\ WithItem(Target, m)[m.a + 1] = Item(m.id, m.a) /\ Item(m.id, m.a) # Blank
         /\ \A i \in DOMAIN Target : i # m.a + 1 => WithItem(Target, m)[i] = Target[i]
<1>1. m.id \in 1..MaxUploads /\ m.a \in 0..MaxItems
  BY DEF Messages, Bounded
<1>2. Target \in Seq(Items) /\ Len(Target) <= MaxItems + 1
  BY ItemCountFits DEF ItemCount
<1>3. m.a \in Nat /\ m.a <= Len(Target) /\ m.a <= MaxItems
      /\ (kind = "fence" => m.a # Len(Target))
  BY <1>1, <1>2, MissionAssumption DEF ItemRefused, ItemCount
<1>4. Item(m.id, m.a) \in Items /\ Item(m.id, m.a) # Blank
  BY <1>1, MissionAssumption DEF Item, Items, Blank
<1>5. /\ WithItem(Target, m) \in Seq(Items)
      /\ Len(WithItem(Target, m)) = IF m.a < Len(Target) THEN Len(Target) ELSE m.a + 1
      /\ WithItem(Target, m)[m.a + 1] = Item(m.id, m.a)
      /\ \A i \in DOMAIN Target : i # m.a + 1 => WithItem(Target, m)[i] = Target[i]
  BY <1>2, <1>3, <1>4, WithItemTyped
<1> QED
  BY <1>2, <1>3, <1>4, <1>5, MissionAssumption

LEMMA MissionItemTyped ==
  ASSUME MissionInv, StoreTypes, NEW g \in Gcs, NEW m \in Messages, m.type = "item",
         MissionItem(g, m), kind' = kind
  PROVE  StoreTypes'
<1>1. CASE UNCHANGED <<stored, upload, timers>>
  BY <1>1 DEF StoreTypes, timers
<1>2. CASE ItemFails(g)
  BY <1>2, EndTyped DEF ItemFails, End, StoreTypes
<1>3. CASE upload.receiving /\ ~ItemRefused(m) /\ ItemAndNext(g, m)
  <2>1. /\ upload'.receiving = upload.receiving /\ upload'.dest = upload.dest
        /\ upload'.first = upload.first /\ upload'.partial = upload.partial
        /\ upload'.items = IF kind = "fence" THEN WithItem(upload.items, m) ELSE upload.items
    BY <1>3, NextKeeps DEF MissionInv
  <2>2. /\ stored' = (IF kind = "fence" THEN stored ELSE WithItem(stored, m))
        /\ sinceItem' = 0 /\ sinceRequest' \in {0, sinceRequest}
    BY <1>3 DEF ItemAndNext
  <2>3. /\ WithItem(Target, m) \in Seq(Items) /\ Len(WithItem(Target, m)) <= MaxItems + 1
        /\ kind = "fence" => Len(WithItem(Target, m)) = Len(Target)
    BY <1>3, TakenTyped
  <2>4. CASE kind = "fence"
    <3>1. Target = upload.items
      BY <1>3, <2>4 DEF Target
    <3> QED BY <2>1, <2>2, <2>3, <2>4, <3>1, MissionAssumption DEF StoreTypes
  <2>5. CASE kind # "fence"
    <3>1. Target = stored
      BY <2>5 DEF Target
    <3> QED BY <2>1, <2>2, <2>3, <2>5, <3>1, MissionAssumption DEF StoreTypes
  <2> QED BY <2>4, <2>5
<1>4. CASE upload.receiving /\ ~ItemRefused(m) /\ LastItem(g, m)
  <2>1. upload' = NoUpload /\ UNCHANGED timers
        /\ (stored' = stored \/ stored' = Completed(WithItem(Target, m)))
    BY <1>4 DEF LastItem, End
  <2>2. /\ WithItem(Target, m) \in Seq(Items) /\ Len(WithItem(Target, m)) <= MaxItems + 1
        /\ kind = "fence" => Len(WithItem(Target, m)) = Len(Target)
    BY <1>4, TakenTyped
  <2>3. kind = "fence" /\ upload.partial => Len(WithItem(Target, m)) = Len(stored)
    BY <1>4, <2>2 DEF StoreTypes, Target
  <2>4. stored' \in Seq(Items) /\ Len(stored') <= MaxItems + 1
    <3> HIDE DEF Items
    <3> QED BY <2>1, <2>2, <2>3, CompletedTyped DEF StoreTypes
  <2> QED BY <2>1, <2>4, EndTyped
<1> QED
  BY <1>1, <1>2, <1>3, <1>4 DEF MissionItem, Refuse, fcVars

LEMMA FcReceivesTyped ==
  ASSUME MissionInv, StoreTypes, NEW g \in Gcs, FcReceives(g)
  PROVE  StoreTypes'
<1> DEFINE m == Head(toFc[g])
<1>1. m \in Messages /\ kind' = kind
  BY HandledTyped
<1> HIDE DEF m
<1>2. m.a \in Int /\ m.b \in Int
  BY <1>1 DEF Messages
<1>3. CASE UNCHANGED <<stored, upload, timers>>
  BY <1>1, <1>3 DEF StoreTypes, timers
<1>4. CASE upload' = NoUpload /\ UNCHANGED timers /\ stored' \in {stored, <<>>}
  <2>1. stored' \in Seq(Items) /\ Len(stored') <= MaxItems + 1
    <3> HIDE DEF Items
    <3>1. CASE stored' = <<>>
      BY <3>1, MissionAssumption
    <3> QED BY <1>4, <3>1 DEF StoreTypes
  <2> QED BY <1>4, <2>1, EndTyped
<1>5. CASE MissionCount(g, m)
  <2>1. CASE m.a \in 1..MaxItems /\ stored' = Truncated(m.a)
             /\ InitSendRequests(g, 0, m.a - 1, FALSE, m.a)
    <3>1. stored' \in Seq(Items) /\ Len(stored') <= MaxItems + 1
      BY <2>1, TruncatedTyped
    <3>2. m.a \in Nat /\ m.a <= MaxItems + 1
      BY <2>1, MissionAssumption
    <3>3. InitSendRequests(g, 0, m.a - 1, FALSE, m.a)
      BY ONLY <2>1
    <3>4. 0 \in Int
      OBVIOUS
    <3> QED BY <1>1, <3>1, <3>2, <3>3, <3>4, BeginTyped
  <2> QED BY <1>3, <1>4, <1>5, <2>1 DEF MissionCount, Refuse, End, fcVars
<1>6. CASE MissionClearAll(g)
  BY <1>3, <1>4, <1>6 DEF MissionClearAll, Refuse, End, fcVars
<1>7. CASE WritePartialList(g, m)
  <2>1. CASE ~upload.receiving /\ InitSendRequests(g, m.a, m.b, TRUE, ItemCount)
             /\ UNCHANGED stored
    <3>1. ItemCount \in Nat /\ ItemCount <= MaxItems + 1 /\ ItemCount = Len(stored)
      BY <2>1, ItemCountFits DEF ItemCount, Target
    <3> QED BY <1>1, <1>2, <2>1, <3>1, BeginTyped DEF StoreTypes
  <2>2. CASE upload' = [upload EXCEPT !.unheard = @ \/ upload.dest = g]
             /\ UNCHANGED <<stored, timers>>
    BY <1>1, <2>2, UnheardKeeps DEF StoreTypes, timers, MissionInv
  <2> QED BY <1>7, <2>1, <2>2 DEF WritePartialList
<1>8. CASE MissionItem(g, m) /\ m.type = "item"
  BY <1>1, <1>8, MissionItemTyped
<1>9. CASE MissionRequestList(g) \/ MissionRequestInt(g, m) \/ MissionRequest(g, m)
  BY <1>3, <1>9 DEF MissionRequestList, MissionRequestInt, MissionRequest, fcVars
<1> QED
  BY <1>5, <1>6, <1>7, <1>8, <1>9 DEF FcReceives, m

LEMMA StoreTypesStep ==
  ASSUME MissionInv, StoreTypes, [MissionNext]_missionVars
  PROVE  StoreTypes'
<1>1. CASE UNCHANGED <<kind, stored, upload, timers>>
  BY <1>1 DEF StoreTypes, timers
<1>2. ASSUME NEW g \in Gcs, StationUploads(g) \/ StationDownloads(g)
                           \/ StationReceives(g) \/ StationGivesUp(g)
      PROVE  UNCHANGED <<kind, stored, upload, timers>>
  BY <1>2 DEF StationUploads, StationDownloads, StationReceives, StationGivesUp, fcVars
<1>3. ASSUME NEW g \in Gcs, LinkLoses(g)
      PROVE  StoreTypes'
  <2>1. UNCHANGED <<kind, stored, timers>>
        /\ (UNCHANGED upload \/ \E u : upload' = [upload EXCEPT !.unheard = u])
    BY <1>3 DEF LinkLoses
  <2> QED BY <1>1, <2>1, UnheardKeeps DEF StoreTypes, timers, MissionInv
<1>4. CASE UploadTimesOut
  BY <1>4, EndTyped DEF UploadTimesOut, StoreTypes
<1>5. CASE Resend \/ QueuedRequestSend
  <2>1. UNCHANGED <<kind, stored, upload, sinceItem>> /\ sinceRequest' \in {0, sinceRequest}
    BY <1>5 DEF Resend, QueuedRequestSend
  <2> QED BY <2>1, MissionAssumption DEF StoreTypes
<1>6. CASE MissionClock
  <2>1. /\ UNCHANGED <<kind, stored, upload>> /\ sinceItem <= UploadTimeout
        /\ sinceRequest <= RequestTimeout
        /\ sinceItem' = sinceItem + 1 /\ sinceRequest' = sinceRequest + 1
    BY <1>6, MissionAssumption DEF MissionClock, TimedOut, StoreTypes
  <2> QED BY <2>1, MissionAssumption DEF StoreTypes
<1>7. CASE UNCHANGED missionVars
  BY <1>1, <1>7 DEF missionVars, fcVars
<1> QED
  BY <1>1, <1>2, <1>3, <1>4, <1>5, <1>6, <1>7, FcReceivesTyped DEF MissionNext

(* What is put on a link fits.                                             *)
LEMMA PutFits ==
  ASSUME NEW q \in Seq(Answers), Len(q) <= QueueLength, NEW r \in Answers
  PROVE  Put(q, r) \in Seq(Answers) /\ Len(Put(q, r)) <= QueueLength
<1> HIDE DEF Answers
<1> QED BY MissionAssumption DEF Put

LEMMA QueueFits ==
  ASSUME AnswersFit, NEW g, NEW q, toGcs' = [toGcs EXCEPT ![g] = q],
         g \in Gcs => q \in Seq(Answers) /\ Len(q) <= QueueLength
  PROVE  AnswersFit'
BY DEF AnswersFit

LEMMA SendFits ==
  ASSUME AnswersFit, NEW g, NEW r \in Answers, Send(g, r)
  PROVE  AnswersFit'
<1>1. toGcs' = [toGcs EXCEPT ![g] = Put(toGcs[g], r)]
  BY DEF Send
<1>2. g \in Gcs => Put(toGcs[g], r) \in Seq(Answers) /\ Len(Put(toGcs[g], r)) <= QueueLength
  BY PutFits DEF AnswersFit
<1> QED BY <1>1, <1>2, QueueFits

LEMMA AckFits ==
  ASSUME AnswersFit, NEW g, NEW result \in {"refused", "accepted", "cancelled"},
         SendMissionAck(g, result)
  PROVE  AnswersFit'
<1>1. Msg("ack", 0, 0, 0, result) \in Answers
  BY DEF Msg, Answers
<1> QED BY <1>1, SendFits DEF SendMissionAck

LEMMA RequestFits ==
  ASSUME AnswersFit, NEW g, NEW n \in Int, Send(g, Msg("request", 0, n, 0, "none"))
  PROVE  AnswersFit'
<1>1. Msg("request", 0, n, 0, "none") \in Answers
  BY DEF Msg, Answers
<1> QED BY <1>1, SendFits

LEMMA ReplyFits == Reply \in Answers
BY DEF Reply, Msg, Answers

LEMMA FcReceivesFits ==
  ASSUME MissionInv, LinksFit, NEW g \in Gcs, FcReceives(g)
  PROVE  LinksFit'
<1> DEFINE m == Head(toFc[g])
<1> HIDE DEF m
<1>1. AnswersFit /\ UploadShape
  BY DEF MissionInv, LinksFit
<1>2. \A h \in Gcs : Len(toFc'[h]) <= QueueLength
  <2>1. toFc \in [Gcs -> Seq(Messages)] /\ toFc[g] # <<>>
        /\ toFc' = [toFc EXCEPT ![g] = Tail(toFc[g])]
    BY DEF MissionInv, FcReceives
  <2>2. Len(Tail(toFc[g])) <= QueueLength
    BY <2>1, MissionAssumption DEF LinksFit
  <2> QED BY <2>1, <2>2 DEF LinksFit
<1> SUFFICES AnswersFit'
  BY <1>2 DEF LinksFit
<1>3. CASE UNCHANGED toGcs
  BY <1>1, <1>3 DEF AnswersFit
<1>4. CASE \E result \in {"refused", "accepted", "cancelled"} : SendMissionAck(g, result)
  BY <1>1, <1>4, AckFits
<1>5. CASE Send(g, Reply)
  BY <1>1, <1>5, ReplyFits, SendFits
<1>6. CASE MissionCount(g, m) \/ MissionClearAll(g) \/ WritePartialList(g, m)
  BY <1>3, <1>4, <1>6 DEF MissionCount, MissionClearAll, WritePartialList, Refuse, End,
                          InitSendRequests
<1>7. CASE MissionItem(g, m)
  <2>1. CASE ItemAndNext(g, m)
    <3>1. upload.next + 1 \in Int
      BY <1>1 DEF UploadShape
    <3>2. UNCHANGED toGcs \/ Send(g, Msg("request", 0, upload.next + 1, 0, "none"))
      BY <2>1 DEF ItemAndNext
    <3> QED BY <1>1, <1>3, <3>1, <3>2, RequestFits
  <2> QED BY <1>3, <1>4, <1>7, <2>1 DEF MissionItem, ItemFails, LastItem, End, Refuse
<1>8. CASE MissionRequestInt(g, m)
  <2>1. CASE toGcs' = [toGcs EXCEPT ![g] = Put(Put(@, Reply), Msg("ack", 0, 0, 0, "refused"))]
    <3>1. Msg("ack", 0, 0, 0, "refused") \in Answers
      BY DEF Msg, Answers
    <3>2. Put(toGcs[g], Reply) \in Seq(Answers) /\ Len(Put(toGcs[g], Reply)) <= QueueLength
      BY <1>1, PutFits, ReplyFits DEF AnswersFit
    <3>3. /\ Put(Put(toGcs[g], Reply), Msg("ack", 0, 0, 0, "refused")) \in Seq(Answers)
          /\ Len(Put(Put(toGcs[g], Reply), Msg("ack", 0, 0, 0, "refused"))) <= QueueLength
      BY <3>1, <3>2, PutFits
    <3> QED BY <1>1, <2>1, <3>3, QueueFits
  <2> QED BY <1>4, <1>5, <1>8, <2>1 DEF MissionRequestInt
<1>9. CASE MissionRequestList(g) \/ MissionRequest(g, m)
  BY <1>4, <1>5, <1>9 DEF MissionRequestList, MissionRequest
<1> QED BY <1>6, <1>7, <1>8, <1>9 DEF FcReceives, m

LEMMA SaysFits ==
  ASSUME MissionInv, LinksFit, NEW g \in Gcs, NEW m, Says(g, m)
  PROVE  \A h \in Gcs : Len(toFc'[h]) <= QueueLength
<1>1. /\ toFc \in [Gcs -> Seq(Messages)] /\ Len(toFc[g]) < QueueLength
      /\ toFc' = [toFc EXCEPT ![g] = Append(toFc[g], m)]
  BY DEF MissionInv, Says
<1>2. Len(Append(toFc[g], m)) <= QueueLength
  BY <1>1, MissionAssumption
<1> QED BY <1>1, <1>2 DEF LinksFit

LEMMA LinksFitStep ==
  ASSUME MissionInv, LinksFit, [MissionNext]_missionVars
  PROVE  LinksFit'
<1>0. AnswersFit /\ (UNCHANGED toGcs => AnswersFit') /\ UploadShape
      /\ toFc \in [Gcs -> Seq(Messages)]
  BY DEF LinksFit, AnswersFit, MissionInv
<1>1. CASE UNCHANGED <<toFc, toGcs>>
  BY <1>0, <1>1 DEF LinksFit
<1>2. ASSUME NEW g \in Gcs, StationUploads(g) \/ StationDownloads(g)
      PROVE  LinksFit'
  <2>1. UNCHANGED toGcs /\ \E m : Says(g, m)
    BY <1>2 DEF StationUploads, StationDownloads
  <2> QED BY <1>0, <2>1, SaysFits DEF LinksFit
<1>3. ASSUME NEW g \in Gcs, StationReceives(g)
      PROVE  LinksFit'
  <2>1. toGcs[g] # <<>> /\ toGcs' = [toGcs EXCEPT ![g] = Tail(toGcs[g])]
        /\ (UNCHANGED toFc \/ \E m : Says(g, m))
    BY <1>3 DEF StationReceives
  <2>2. Tail(toGcs[g]) \in Seq(Answers) /\ Len(Tail(toGcs[g])) <= QueueLength
    <3> HIDE DEF Answers
    <3> QED BY <1>0, <2>1, MissionAssumption DEF AnswersFit
  <2>3. AnswersFit'
    BY <1>0, <2>1, <2>2, QueueFits
  <2> QED BY <2>1, <2>3, SaysFits DEF LinksFit
<1>4. ASSUME NEW g \in Gcs, LinkLoses(g)
      PROVE  LinksFit'
  <2>1. CASE toFc[g] # <<>> /\ toFc' = [toFc EXCEPT ![g] = Tail(@)] /\ UNCHANGED toGcs
    <3>1. Len(Tail(toFc[g])) <= QueueLength
      BY <1>0, <2>1, MissionAssumption DEF LinksFit
    <3> QED BY <1>0, <2>1, <3>1 DEF LinksFit
  <2>2. CASE toGcs[g] # <<>> /\ toGcs' = [toGcs EXCEPT ![g] = Tail(@)] /\ UNCHANGED toFc
    <3>1. Tail(toGcs[g]) \in Seq(Answers) /\ Len(Tail(toGcs[g])) <= QueueLength
      <4> HIDE DEF Answers
      <4> QED BY <1>0, <2>2, MissionAssumption DEF AnswersFit
    <3>2. toGcs' = [toGcs EXCEPT ![g] = Tail(toGcs[g])]
      BY <2>2
    <3>3. AnswersFit'
      BY <1>0, <3>1, <3>2, QueueFits
    <3> QED BY <2>2, <3>3 DEF LinksFit
  <2> QED BY <1>4, <2>1, <2>2 DEF LinkLoses
<1>5. CASE UploadTimesOut
  BY <1>0, <1>5, AckFits DEF UploadTimesOut, LinksFit
<1>6. CASE QueuedRequestSend
  <2>1. upload.next \in Int
    BY <1>0 DEF UploadShape
  <2>2. UNCHANGED toFc /\ (UNCHANGED toGcs \/ \E g : Send(g, Msg("request", 0, upload.next, 0, "none")))
    BY <1>6 DEF QueuedRequestSend
  <2>3. AnswersFit'
    BY <1>0, <2>1, <2>2, RequestFits
  <2> QED BY <2>2, <2>3 DEF LinksFit
<1>7. ASSUME NEW g \in Gcs, StationGivesUp(g)
      PROVE  LinksFit'
  BY <1>1, <1>7 DEF StationGivesUp
<1>8. CASE Resend \/ MissionClock \/ UNCHANGED missionVars
  BY <1>1, <1>8 DEF Resend, MissionClock, missionVars
<1> QED
  BY <1>2, <1>3, <1>4, <1>5, <1>6, <1>7, <1>8, FcReceivesFits DEF MissionNext

(* The store and the object hold items that exist, no more of them than    *)
(* there can be, an upload has a destination exactly while it receives,    *)
(* the timers stay within their limits and the links within their queues.  *)
THEOREM MissionTyped == MissionSpec => []MissionTypeOK
<1> DEFINE Inv == MissionInv /\ StoreTypes /\ LinksFit
<1>1. MissionInit => Inv
  BY MissionInvInit, StoreTypesInit
<1>2. Inv /\ [MissionNext]_missionVars => Inv'
  BY MissionInvStep, StoreTypesStep, LinksFitStep
<1>3. Inv => MissionTypeOK
  BY DEF MissionInv, UploadShape, StoreTypes, LinksFit, AnswersFit, MissionTypeOK, Items
<1> QED
  BY <1>1, <1>2, <1>3, PTL DEF MissionSpec

----------------------------------------------------------------------------
(* What is on a link, and what a station says on it: after the message     *)
(* that starts an upload only items of that upload follow, until the next  *)
(* such message.                                                           *)
Starts(m) == m.type \in {"count", "partial"}

Announced(q, i, j, id) == \E k \in i..(j - 1) : Starts(q[k]) /\ q[k].id = id

InOrder(q) ==
    \A i, j \in DOMAIN q :
       i < j /\ Starts(q[i]) /\ q[j].type = "item" => Announced(q, i, j, q[j].id)

(* The same of the items the station has still to say.                     *)
Continues(q, id) == \A i \in DOMAIN q : Starts(q[i]) => Announced(q, i, Len(q) + 1, id)

SaidInOrder ==
    \A g \in Gcs : InOrder(toFc[g]) /\ (station[g].up => Continues(toFc[g], station[g].id))

(* Nothing but items of upload u arrives before an upload is announced.    *)
ArrivesOf(q, u) ==
    \A j \in DOMAIN q : q[j].type = "item" => q[j].id = u \/ Announced(q, 1, j, q[j].id)

FollowsOf(q, u, id) == id = u \/ Announced(q, 1, Len(q) + 1, id)

OnlyOf(g, u) ==
    /\ ArrivesOf(toFc[g], u)
    /\ station[g].up => FollowsOf(toFc[g], u, station[g].id)

(* A message taken from a link, and one put on it.                         *)
LEMMA AnnouncedTail ==
  ASSUME NEW q \in Seq(Messages), q # <<>>, NEW i \in Nat \ {0}, NEW j \in 1..Len(q), NEW id
  PROVE  /\ Announced(q, i + 1, j + 1, id) => Announced(Tail(q), i, j, id)
         /\ Announced(q, 1, j + 1, id) =>
              Announced(Tail(q), 1, j, id) \/ (Starts(q[1]) /\ q[1].id = id)
<1> HIDE DEF Messages
<1>1. Len(Tail(q)) = Len(q) - 1 /\ \A k \in 1..(Len(q) - 1) : Tail(q)[k] = q[k + 1]
  OBVIOUS
<1>2. ASSUME NEW k \in (i + 1)..j, Starts(q[k]) /\ q[k].id = id
      PROVE  Announced(Tail(q), i, j, id)
  <2>1. k - 1 \in i..(j - 1) /\ k - 1 \in 1..(Len(q) - 1) /\ k = (k - 1) + 1
    OBVIOUS
  <2>2. Tail(q)[k - 1] = q[k]
    BY <1>1, <2>1
  <2> QED BY <1>2, <2>1, <2>2 DEF Announced
<1>3. ASSUME NEW k \in 2..j, Starts(q[k]) /\ q[k].id = id
      PROVE  Announced(Tail(q), 1, j, id)
  <2>1. k - 1 \in 1..(j - 1) /\ k - 1 \in 1..(Len(q) - 1) /\ k = (k - 1) + 1
    OBVIOUS
  <2>2. Tail(q)[k - 1] = q[k]
    BY <1>1, <2>1
  <2> QED BY <1>3, <2>1, <2>2 DEF Announced
<1>4. Announced(q, i + 1, j + 1, id) => Announced(Tail(q), i, j, id)
  BY <1>2 DEF Announced
<1>5. ASSUME Announced(q, 1, j + 1, id)
      PROVE  Announced(Tail(q), 1, j, id) \/ (Starts(q[1]) /\ q[1].id = id)
  <2>1. PICK k \in 1..j : Starts(q[k]) /\ q[k].id = id
    BY <1>5 DEF Announced
  <2>2. k = 1 \/ k \in 2..j
    OBVIOUS
  <2> QED BY <1>3, <2>1, <2>2
<1> QED BY <1>4, <1>5

LEMMA AnnouncedAppend ==
  ASSUME NEW q \in Seq(Messages), NEW m, NEW i \in Nat \ {0}, NEW j \in Int, j <= Len(q) + 1,
         NEW id
  PROVE  /\ Announced(q, i, j, id) => Announced(Append(q, m), i, j, id)
         /\ Announced(q, i, j, id) => Announced(Append(q, m), i, j + 1, id)
<1> HIDE DEF Messages
<1>1. \A k \in 1..Len(q) : Append(q, m)[k] = q[k]
  OBVIOUS
<1>2. i..(j - 1) \subseteq 1..Len(q) /\ i..(j - 1) \subseteq i..((j + 1) - 1)
  OBVIOUS
<1> QED BY <1>1, <1>2 DEF Announced

LEMMA TailInOrder ==
  ASSUME NEW q \in Seq(Messages), q # <<>>, InOrder(q), NEW id
  PROVE  /\ InOrder(Tail(q))
         /\ Continues(q, id) => Continues(Tail(q), id)
<1> HIDE DEF Messages
<1>1. /\ Len(q) \in Nat /\ Len(Tail(q)) = Len(q) - 1 /\ DOMAIN Tail(q) = 1..(Len(q) - 1)
      /\ \A k \in 1..(Len(q) - 1) : Tail(q)[k] = q[k + 1] /\ k + 1 \in DOMAIN q
  OBVIOUS
<1>2. ASSUME NEW i \in DOMAIN Tail(q), NEW j \in DOMAIN Tail(q), i < j,
             Starts(Tail(q)[i]), Tail(q)[j].type = "item"
      PROVE  Announced(Tail(q), i, j, Tail(q)[j].id)
  <2>1. Announced(q, i + 1, j + 1, q[j + 1].id)
    BY <1>1, <1>2 DEF InOrder
  <2>2. i \in Nat \ {0} /\ j \in 1..Len(q)
    BY <1>1
  <2> QED BY <1>1, <2>1, <2>2, AnnouncedTail
<1>3. ASSUME Continues(q, id), NEW i \in DOMAIN Tail(q), Starts(Tail(q)[i])
      PROVE  Announced(Tail(q), i, Len(Tail(q)) + 1, id)
  <2>1. Announced(q, i + 1, Len(q) + 1, id)
    BY <1>1, <1>3 DEF Continues
  <2>2. i \in Nat \ {0} /\ Len(q) \in 1..Len(q) /\ Len(Tail(q)) + 1 = Len(q)
    BY <1>1
  <2> QED BY <2>1, <2>2, AnnouncedTail
<1> QED BY <1>2, <1>3 DEF InOrder, Continues

LEMMA AppendInOrder ==
  ASSUME NEW q \in Seq(Messages), InOrder(q), NEW m, NEW id,
         m.type = "item" => Continues(q, m.id)
  PROVE  /\ InOrder(Append(q, m))
         /\ Starts(m) => Continues(Append(q, m), m.id)
         /\ Continues(q, id) /\ ~Starts(m) => Continues(Append(q, m), id)
<1> DEFINE r == Append(q, m)
<1> HIDE DEF Messages
<1>1. /\ Len(q) \in Nat /\ Len(r) = Len(q) + 1 /\ DOMAIN r = 1..(Len(q) + 1)
      /\ DOMAIN q = 1..Len(q) /\ r[Len(q) + 1] = m
      /\ \A k \in 1..Len(q) : r[k] = q[k]
  OBVIOUS
<1>2. \A i, j \in 1..(Len(q) + 1) : Announced(q, i, j, r[j].id) => Announced(r, i, j, r[j].id)
  <2> HIDE DEF r
  <2>1. \A i, j \in 1..(Len(q) + 1) : i \in Nat \ {0} /\ j \in Int /\ j <= Len(q) + 1
    BY <1>1
  <2> QED BY <2>1, AnnouncedAppend DEF r
<1> HIDE DEF r
<1>3. ASSUME NEW i \in 1..(Len(q) + 1), NEW j \in 1..(Len(q) + 1), i < j,
             Starts(r[i]), r[j].type = "item"
      PROVE  Announced(q, i, j, r[j].id)
  <2>1. i \in 1..Len(q) /\ r[i] = q[i]
    BY <1>1, <1>3
  <2>2. CASE j \in 1..Len(q)
    BY <1>1, <1>3, <2>1, <2>2 DEF InOrder
  <2>3. CASE j = Len(q) + 1
    BY <1>1, <1>3, <2>1, <2>3 DEF Continues
  <2> QED BY <1>1, <2>2, <2>3
<1>4. ASSUME Starts(m), NEW i \in DOMAIN r
      PROVE  Announced(r, i, Len(r) + 1, m.id)
  <2>1. Len(q) + 1 \in i..((Len(r) + 1) - 1)
    BY <1>1, <1>4
  <2> QED BY <1>1, <1>4, <2>1 DEF Announced
<1>5. ASSUME Continues(q, id), ~Starts(m), NEW i \in DOMAIN r, Starts(r[i])
      PROVE  Announced(r, i, Len(r) + 1, id)
  <2>1. i \in 1..Len(q) /\ i \in Nat \ {0} /\ Len(q) + 1 \in Int /\ Len(q) + 1 <= Len(q) + 1
    BY <1>1, <1>5
  <2>2. Announced(q, i, Len(q) + 1, id)
    BY <1>1, <1>5, <2>1 DEF Continues
  <2>3. Announced(r, i, (Len(q) + 1) + 1, id)
    BY <2>1, <2>2, AnnouncedAppend DEF r
  <2> QED BY <1>1, <2>3
<1> QED BY <1>1, <1>2, <1>3, <1>4, <1>5 DEF InOrder, Continues, r

(* What arrives of upload u, when the head of the link is something else   *)
(* than the start of an upload, when it starts one, and when more is said. *)
LEMMA TailArrives ==
  ASSUME NEW q \in Seq(Messages), q # <<>>, ~Starts(q[1]), NEW u, NEW id
  PROVE  /\ ArrivesOf(q, u) => ArrivesOf(Tail(q), u)
         /\ FollowsOf(q, u, id) => FollowsOf(Tail(q), u, id)
<1> HIDE DEF Messages
<1>1. /\ Len(q) \in Nat /\ Len(Tail(q)) = Len(q) - 1 /\ DOMAIN Tail(q) = 1..(Len(q) - 1)
      /\ \A k \in 1..(Len(q) - 1) : Tail(q)[k] = q[k + 1] /\ k + 1 \in DOMAIN q
      /\ Len(q) \in 1..Len(q) /\ 1 \in Nat \ {0}
  OBVIOUS
<1>2. ASSUME NEW j \in 1..Len(q), NEW x, Announced(q, 1, j + 1, x)
      PROVE  Announced(Tail(q), 1, j, x)
  BY <1>1, <1>2, AnnouncedTail
<1>3. ASSUME ArrivesOf(q, u), NEW j \in DOMAIN Tail(q), Tail(q)[j].type = "item"
      PROVE  Tail(q)[j].id = u \/ Announced(Tail(q), 1, j, Tail(q)[j].id)
  <2>1. j \in 1..Len(q)
    BY <1>1
  <2>2. q[j + 1].id = u \/ Announced(q, 1, j + 1, q[j + 1].id)
    BY <1>1, <1>3 DEF ArrivesOf
  <2> QED BY <1>1, <1>2, <2>1, <2>2
<1> QED BY <1>1, <1>2, <1>3 DEF ArrivesOf, FollowsOf

LEMMA HeadStarts ==
  ASSUME NEW q \in Seq(Messages), q # <<>>, Starts(q[1]), InOrder(q), NEW id
  PROVE  /\ ArrivesOf(Tail(q), q[1].id)
         /\ Continues(q, id) => FollowsOf(Tail(q), q[1].id, id)
<1> HIDE DEF Messages
<1>1. /\ Len(q) \in Nat /\ Len(Tail(q)) = Len(q) - 1 /\ DOMAIN Tail(q) = 1..(Len(q) - 1)
      /\ \A k \in 1..(Len(q) - 1) : Tail(q)[k] = q[k + 1] /\ k + 1 \in DOMAIN q /\ 1 < k + 1
      /\ Len(q) \in 1..Len(q) /\ 1 \in Nat \ {0} /\ 1 \in DOMAIN q
  OBVIOUS
<1>2. ASSUME NEW j \in 1..Len(q), NEW x, Announced(q, 1, j + 1, x)
      PROVE  Announced(Tail(q), 1, j, x) \/ x = q[1].id
  BY <1>1, <1>2, AnnouncedTail
<1>3. ASSUME NEW j \in DOMAIN Tail(q), Tail(q)[j].type = "item"
      PROVE  Tail(q)[j].id = q[1].id \/ Announced(Tail(q), 1, j, Tail(q)[j].id)
  <2>1. j \in 1..Len(q)
    BY <1>1
  <2>2. Announced(q, 1, j + 1, q[j + 1].id)
    BY <1>1, <1>3 DEF InOrder
  <2> QED BY <1>1, <1>2, <2>1, <2>2
<1> QED BY <1>1, <1>2, <1>3 DEF ArrivesOf, FollowsOf, Continues

LEMMA AppendArrives ==
  ASSUME NEW q \in Seq(Messages), NEW m, NEW u, NEW id, ArrivesOf(q, u),
         m.type = "item" => FollowsOf(q, u, m.id)
  PROVE  /\ ArrivesOf(Append(q, m), u)
         /\ Starts(m) => FollowsOf(Append(q, m), u, m.id)
         /\ FollowsOf(q, u, id) => FollowsOf(Append(q, m), u, id)
<1> DEFINE r == Append(q, m)
<1> HIDE DEF Messages
<1>1. /\ Len(q) \in Nat /\ Len(r) = Len(q) + 1 /\ DOMAIN r = 1..(Len(q) + 1)
      /\ DOMAIN q = 1..Len(q) /\ r[Len(q) + 1] = m
      /\ \A k \in 1..Len(q) : r[k] = q[k]
      /\ Len(q) + 1 \in 1..((Len(r) + 1) - 1)
  OBVIOUS
<1>2. ASSUME NEW j \in 1..(Len(q) + 1), NEW x, Announced(q, 1, j, x)
      PROVE  Announced(r, 1, j, x) /\ Announced(r, 1, j + 1, x)
  <2>1. 1 \in Nat \ {0} /\ j \in Int /\ j <= Len(q) + 1
    BY <1>1
  <2> QED BY <1>2, <2>1, AnnouncedAppend
<1> HIDE DEF r
<1>3. ASSUME NEW j \in 1..(Len(q) + 1), r[j].type = "item"
      PROVE  r[j].id = u \/ Announced(r, 1, j, r[j].id)
  <2>1. CASE j \in 1..Len(q)
    BY <1>1, <1>2, <1>3, <2>1 DEF ArrivesOf
  <2>2. CASE j = Len(q) + 1
    BY <1>1, <1>2, <1>3, <2>2 DEF FollowsOf
  <2> QED BY <1>1, <2>1, <2>2
<1>4. Len(q) + 1 \in 1..(Len(q) + 1)
  BY <1>1
<1>5. FollowsOf(q, u, id) => FollowsOf(r, u, id)
  BY <1>1, <1>2, <1>4 DEF FollowsOf
<1>6. Starts(m) => FollowsOf(r, u, m.id)
  BY <1>1 DEF FollowsOf, Announced
<1> QED BY <1>1, <1>3, <1>5, <1>6 DEF ArrivesOf, r

----------------------------------------------------------------------------
(* What a step does to the link from station g: nothing (and the station   *)
(* may rest), the head is taken, or the station says what it may.          *)
Rests(g) == toFc'[g] = toFc[g] /\ (station'[g] = station[g] \/ ~station'[g].up)

TakesHead(g) ==
    toFc[g] # <<>> /\ toFc'[g] = Tail(toFc[g]) /\ station'[g] = station[g]

SaysMore(g) ==
    \E m \in [type : Types, id : Nat, a : Int, b : Int, tag : Faults \cup {"none"}] :
       /\ toFc'[g] = Append(toFc[g], m)
       /\ m.type = "item" => station[g].up /\ m.id = station[g].id
       /\ IF Starts(m) THEN station'[g].id = m.id ELSE station'[g] = station[g]

LEMMA SaysSay ==
  ASSUME MissionInv, NEW h \in Gcs, NEW g \in Gcs, NEW type \in Types, NEW id \in Nat,
         NEW a \in Int, NEW b \in Int, NEW tag \in Faults \cup {"none"},
         Says(h, Msg(type, id, a, b, tag)),
         type = "item" => station[h].up /\ id = station[h].id,
         \/ type \notin {"count", "partial"} /\ station' = station
         \/ /\ type \in {"count", "partial"}
            /\ \E s : s.id = id /\ station' = [station EXCEPT ![h] = s]
  PROVE  Rests(g) \/ SaysMore(g)
<1> DEFINE m == Msg(type, id, a, b, tag)
<1>1. /\ toFc \in [Gcs -> Seq(Messages)] /\ station \in [Gcs -> Stations]
      /\ toFc' = [toFc EXCEPT ![h] = Append(toFc[h], m)]
  BY DEF MissionInv, Says
<1>2. /\ m \in [type : Types, id : Nat, a : Int, b : Int, tag : Faults \cup {"none"}]
      /\ m.type = type /\ m.id = id
  BY DEF Msg
<1>3. CASE g # h
  <2>1. toFc'[g] = toFc[g] /\ station'[g] = station[g]
    BY <1>1, <1>3
  <2> QED BY <2>1 DEF Rests
<1>4. CASE g = h
  <2> HIDE DEF m
  <2>1. toFc'[g] = Append(toFc[g], m)
    BY <1>1, <1>4
  <2>2. IF Starts(m) THEN station'[g].id = m.id ELSE station'[g] = station[g]
    BY <1>1, <1>2, <1>4 DEF Starts
  <2>3. m.type = "item" => station[g].up /\ m.id = station[g].id
    BY <1>2, <1>4
  <2> QED BY <1>2, <2>1, <2>2, <2>3 DEF SaysMore
<1> QED BY <1>3, <1>4

LEMMA LinkStep ==
  ASSUME MissionInv, [MissionNext]_missionVars, NEW g \in Gcs
  PROVE  \/ Rests(g) \/ SaysMore(g)
         \/ /\ TakesHead(g)
            /\ FcReceives(g) \/ (LinkLoses(g) /\ toFc' = [toFc EXCEPT ![g] = Tail(toFc[g])])
<1>0. /\ toFc \in [Gcs -> Seq(Messages)] /\ station \in [Gcs -> Stations]
      /\ uploads \in 0..MaxUploads /\ ~Resting.up
  BY DEF MissionInv, Resting
<1>1. CASE UNCHANGED <<toFc, station>>
  BY <1>1 DEF Rests
<1>2. ASSUME NEW h \in Gcs, toFc[h] # <<>>, toFc' = [toFc EXCEPT ![h] = Tail(toFc[h])],
             station' = station
      PROVE  Rests(g) \/ (h = g /\ TakesHead(g))
  <2>1. h # g => toFc'[g] = toFc[g]
    BY <1>0, <1>2
  <2>2. h = g => toFc'[g] = Tail(toFc[g])
    BY <1>0, <1>2
  <2> QED BY <1>2, <2>1, <2>2 DEF Rests, TakesHead
<1>3. ASSUME NEW h \in Gcs, FcReceives(h)
      PROVE  Rests(g) \/ (h = g /\ TakesHead(g))
  BY <1>2, <1>3 DEF FcReceives
<1>4. ASSUME NEW h \in Gcs, LinkLoses(h)
      PROVE  Rests(g) \/ (h = g /\ TakesHead(g) /\ toFc' = [toFc EXCEPT ![g] = Tail(toFc[g])])
  <2>1. station' = station
    BY <1>4 DEF LinkLoses
  <2>2. CASE UNCHANGED toFc
    BY <2>1, <2>2 DEF Rests
  <2>3. CASE toFc[h] # <<>> /\ toFc' = [toFc EXCEPT ![h] = Tail(toFc[h])]
    BY <1>2, <2>1, <2>3
  <2> QED BY <1>4, <2>2, <2>3 DEF LinkLoses
<1>5. ASSUME NEW h \in Gcs, StationUploads(h)
      PROVE  Rests(g) \/ SaysMore(g)
  <2>1. uploads' \in Nat
    BY <1>0, <1>5, MissionAssumption DEF StationUploads
  <2>2. ASSUME NEW n \in 0..(MaxItems + 1), Says(h, Msg("count", uploads', n, 0, "none")),
               station' = [station EXCEPT ![h] =
                    [up |-> TRUE, id |-> uploads', first |-> 0, last |-> n - 1]]
        PROVE  Rests(g) \/ SaysMore(g)
    <3>1. /\ n \in Int /\ 0 \in Int /\ "count" \in Types /\ "count" # "item"
          /\ "count" \in {"count", "partial"} /\ "none" \in Faults \cup {"none"}
      BY DEF Types
    <3>2. \E s : s.id = uploads' /\ station' = [station EXCEPT ![h] = s]
      BY <2>2
    <3> QED BY <2>1, <2>2, <3>1, <3>2, SaysSay
  <2>3. ASSUME NEW first \in PartialStarts, NEW last \in 0..MaxItems,
               Says(h, Msg("partial", uploads', first, last, "none")),
               station' = [station EXCEPT ![h] =
                    [up |-> TRUE, id |-> uploads', first |-> first, last |-> last]]
        PROVE  Rests(g) \/ SaysMore(g)
    <3>1. /\ first \in Int /\ last \in Int /\ "partial" \in Types /\ "partial" # "item"
          /\ "partial" \in {"count", "partial"} /\ "none" \in Faults \cup {"none"}
      BY MissionAssumption DEF Types
    <3>2. \E s : s.id = uploads' /\ station' = [station EXCEPT ![h] = s]
      BY <2>3
    <3> QED BY <2>1, <2>3, <3>1, <3>2, SaysSay
  <2>4. CASE Says(h, Msg("clear", uploads', 0, 0, "none")) /\ UNCHANGED station
    <3>1. /\ 0 \in Int /\ "clear" \in Types /\ "clear" # "item"
          /\ "clear" \notin {"count", "partial"} /\ "none" \in Faults \cup {"none"}
      BY DEF Types
    <3> QED BY <2>1, <2>4, <3>1, SaysSay
  <2> QED BY <1>5, <2>2, <2>3, <2>4 DEF StationUploads
<1>6. ASSUME NEW h \in Gcs, StationDownloads(h)
      PROVE  Rests(g) \/ SaysMore(g)
  <2>1. PICK type \in {"request_list", "request_int", "request"} :
          Says(h, Msg(type, 0, 0, 0, "none"))
    BY <1>6 DEF StationDownloads
  <2>2. /\ 0 \in Int /\ 0 \in Nat /\ type \in Types /\ type # "item" /\ station' = station
        /\ type \notin {"count", "partial"} /\ "none" \in Faults \cup {"none"}
    BY <1>6 DEF Types, StationDownloads
  <2> QED BY <2>1, <2>2, SaysSay
<1>7. ASSUME NEW h \in Gcs, StationReceives(h)
      PROVE  Rests(g) \/ SaysMore(g)
  <2> DEFINE m == Head(toGcs[h])
  <2>1. CASE /\ station[h].up /\ m.a \in station[h].first..station[h].last
             /\ \E fault \in Faults : Says(h, Msg("item", station[h].id, m.a, 0, fault))
             /\ UNCHANGED station
    <3>1. PICK fault \in Faults : Says(h, Msg("item", station[h].id, m.a, 0, fault))
      BY <2>1
    <3>2. station[h] \in Stations
      BY <1>0
    <3>3. /\ m.a \in Int /\ 0 \in Int /\ "item" \in Types /\ station[h].id \in Nat
          /\ "item" \notin {"count", "partial"} /\ fault \in Faults \cup {"none"}
      <4> HIDE DEF m
      <4> QED BY <2>1, <3>2 DEF Types, Stations
    <3> HIDE DEF m
    <3> QED BY <2>1, <3>1, <3>3, SaysSay
  <2>2. CASE UNCHANGED toFc /\ station' \in {[station EXCEPT ![h] = Resting], station}
    <3>1. station'[g] = station[g] \/ station'[g] = Resting
      BY <1>0, <2>2
    <3> QED BY <1>0, <2>2, <3>1 DEF Rests
  <2> QED BY <1>7, <2>1, <2>2 DEF StationReceives
<1>8. ASSUME NEW h \in Gcs, StationGivesUp(h)
      PROVE  Rests(g)
  <2>1. UNCHANGED toFc /\ station' = [station EXCEPT ![h] = Resting]
    BY <1>8 DEF StationGivesUp
  <2>2. station'[g] = station[g] \/ station'[g] = Resting
    BY <1>0, <2>1
  <2> QED BY <1>0, <2>1, <2>2 DEF Rests
<1>9. CASE UploadTimesOut \/ Resend \/ QueuedRequestSend \/ MissionClock \/ UNCHANGED missionVars
  BY <1>1, <1>9 DEF UploadTimesOut, Resend, QueuedRequestSend, MissionClock, missionVars
<1> QED
  BY <1>3, <1>4, <1>5, <1>6, <1>7, <1>8, <1>9 DEF MissionNext

LEMMA SaidInOrderStep ==
  ASSUME MissionInv, SaidInOrder, [MissionNext]_missionVars
  PROVE  SaidInOrder'
<1> SUFFICES ASSUME NEW g \in Gcs
             PROVE  /\ InOrder(toFc'[g])
                    /\ station'[g].up => Continues(toFc'[g], station'[g].id)
  BY DEF SaidInOrder
<1>1. /\ toFc[g] \in Seq(Messages) /\ InOrder(toFc[g])
      /\ station[g].up => Continues(toFc[g], station[g].id)
  BY DEF MissionInv, SaidInOrder
<1>2. CASE Rests(g)
  BY <1>1, <1>2 DEF Rests
<1>3. CASE TakesHead(g)
  BY <1>1, <1>3, TailInOrder DEF TakesHead
<1>4. CASE SaysMore(g)
  <2>1. PICK m : /\ toFc'[g] = Append(toFc[g], m)
                 /\ m.type = "item" => station[g].up /\ m.id = station[g].id
                 /\ IF Starts(m) THEN station'[g].id = m.id ELSE station'[g] = station[g]
    BY <1>4 DEF SaysMore
  <2>2. m.type = "item" => Continues(toFc[g], m.id)
    BY <1>1, <2>1
  <2> QED BY <1>1, <2>1, <2>2, AppendInOrder
<1> QED BY <1>2, <1>3, <1>4, LinkStep

(* As long as no start of an upload is taken from the link, what arrives   *)
(* is of the upload it was of.                                             *)
LEMMA OnlyOfStep ==
  ASSUME MissionInv, [MissionNext]_missionVars, NEW g \in Gcs, NEW u, OnlyOf(g, u),
         TakesHead(g) => ~Starts(toFc[g][1])
  PROVE  OnlyOf(g, u)'
<1>1. /\ toFc[g] \in Seq(Messages) /\ ArrivesOf(toFc[g], u)
      /\ station[g].up => FollowsOf(toFc[g], u, station[g].id)
  BY DEF MissionInv, OnlyOf
<1> SUFFICES /\ ArrivesOf(toFc'[g], u)
             /\ station'[g].up => FollowsOf(toFc'[g], u, station'[g].id)
  BY DEF OnlyOf
<1>2. CASE Rests(g)
  BY <1>1, <1>2 DEF Rests
<1>3. CASE TakesHead(g)
  BY <1>1, <1>3, TailArrives DEF TakesHead
<1>4. CASE SaysMore(g)
  <2>1. PICK m : /\ toFc'[g] = Append(toFc[g], m)
                 /\ m.type = "item" => station[g].up /\ m.id = station[g].id
                 /\ IF Starts(m) THEN station'[g].id = m.id ELSE station'[g] = station[g]
    BY <1>4 DEF SaysMore
  <2>2. m.type = "item" => FollowsOf(toFc[g], u, m.id)
    BY <1>1, <2>1
  <2> QED BY <1>1, <2>1, <2>2, AppendArrives
<1> QED BY <1>2, <1>3, <1>4, LinkStep

(* Once the start of an upload is taken, what arrives is of that upload.   *)
LEMMA OnlyOfStarts ==
  ASSUME MissionInv, SaidInOrder, NEW g \in Gcs, TakesHead(g), NEW u,
         Starts(toFc[g][1]), toFc[g][1].id = u
  PROVE  OnlyOf(g, u)'
<1>1. /\ toFc[g] \in Seq(Messages) /\ InOrder(toFc[g])
      /\ station[g].up => Continues(toFc[g], station[g].id)
  BY DEF MissionInv, SaidInOrder
<1>2. ArrivesOf(toFc'[g], u) /\ (station'[g].up => FollowsOf(toFc'[g], u, station'[g].id))
  BY <1>1, HeadStarts DEF TakesHead
<1> QED BY <1>2 DEF OnlyOf

----------------------------------------------------------------------------
(* What has been taken so far is of one upload, and so is what is to come. *)
Taken(u) ==
    \A s \in upload.first..(upload.next - 1) :
       s + 1 \in DOMAIN Target /\ Target[s + 1] = Item(u, s)

OfOneUpload ==
    upload.receiving /\ ~upload.unheard =>
       \E u \in Nat : Taken(u) /\ OnlyOf(upload.dest, u)

(* During an upload nothing counts as accepted, and the store of a whole   *)
(* upload does not grow past it.                                           *)
UnderWay ==
    upload.receiving =>
       /\ done = NotDone
       /\ upload.first <= upload.next
       /\ ~upload.partial => upload.first = 0 /\ Len(Target) <= upload.last + 1

(* What a step does to the upload and the store: the upload goes on or     *)
(* rests, begins, takes an item, takes the last one, or ends otherwise.    *)
GoesOn ==
    /\ UNCHANGED <<kind, stored, done>>
    /\ upload'.receiving = upload.receiving /\ upload'.dest = upload.dest
    /\ upload'.next = upload.next /\ upload'.first = upload.first
    /\ upload'.last = upload.last /\ upload'.items = upload.items
    /\ upload'.partial = upload.partial
    /\ upload.unheard => upload'.unheard
    /\ upload.receiving /\ TakesHead(upload.dest) /\ Starts(toFc[upload.dest][1]) =>
         upload'.unheard

Begins(g, m) ==
    /\ kind' = kind
    /\ \/ /\ m.type = "count" /\ m.a \in 1..MaxItems /\ stored' = Truncated(m.a)
          /\ InitSendRequests(g, 0, m.a - 1, FALSE, m.a)
       \/ m.type = "partial" /\ InitSendRequests(g, m.a, m.b, TRUE, ItemCount)

TakesItem(g, m) ==
    /\ kind' = kind /\ upload.receiving /\ m.type = "item"
    /\ Expected(g, m) /\ ~ItemRefused(m) /\ ItemAndNext(g, m)

TakesLast(g, m) ==
    /\ upload.receiving /\ m.type = "item"
    /\ Expected(g, m) /\ ~ItemRefused(m)
    /\ upload.next >= upload.last
    /\ stored' = Completed(WithItem(Target, m))
    /\ done' = IF upload.unheard THEN NotDone
               ELSE [id |-> m.id, first |-> upload.first,
                     last |-> upload.last, whole |-> ~upload.partial]
    /\ upload' = NoUpload

Ends ==
    /\ upload' = NoUpload
    /\ \/ UNCHANGED <<stored, done>>
       \/ done' = NotDone
       \/ stored' = <<>> /\ \E id : done' = [id |-> id, first |-> 0, last |-> -1, whole |-> TRUE]

Handles(g, m) == Begins(g, m) \/ TakesItem(g, m) \/ TakesLast(g, m)

(* A link whose head is not taken is not one whose head is.                *)
LEMMA HeadStays ==
  ASSUME MissionInv, NEW g \in Gcs, Rests(g) \/ SaysMore(g)
  PROVE  ~TakesHead(g)
<1> DEFINE q == toFc[g]
<1>1. q \in Seq(Messages)
  BY DEF MissionInv
<1> HIDE DEF q, Messages
<1>2. q # <<>> => Tail(q) # q /\ \A m : Append(q, m) # Tail(q)
  <2>1. /\ Len(q) \in Nat /\ \A m : Len(Append(q, m)) = Len(q) + 1
        /\ q # <<>> => Len(Tail(q)) = Len(q) - 1
    BY <1>1
  <2> QED BY <2>1
<1> QED BY <1>2 DEF Rests, SaysMore, TakesHead, q

LEMMA ReceivesStep ==
  ASSUME MissionInv, StoreTypes, NEW g \in Gcs, FcReceives(g)
  PROVE  GoesOn \/ Ends \/ Handles(g, toFc[g][1])
<1> DEFINE m == Head(toFc[g])
<1>1. /\ UploadShape /\ m \in Messages /\ m = toFc[g][1] /\ kind' = kind
  BY HandledTyped DEF MissionInv, FcReceives
<1>2. ASSUME upload.receiving, TakesHead(upload.dest)
      PROVE  upload.dest = g
  <2>1. /\ toFc \in [Gcs -> Seq(Messages)] /\ upload.dest \in Gcs
        /\ toFc' = [toFc EXCEPT ![g] = Tail(toFc[g])]
    BY <1>2 DEF MissionInv, FcReceives, StoreTypes
  <2>2. upload.dest # g => toFc'[upload.dest] = toFc[upload.dest] /\ station' = station
    BY <1>2, <2>1 DEF FcReceives
  <2> QED BY <1>2, <2>1, <2>2, HeadStays DEF Rests
<1> HIDE DEF m
<1>3. CASE UNCHANGED <<stored, upload, done>> /\ (upload.receiving /\ upload.dest = g => ~Starts(m))
  BY <1>1, <1>2, <1>3 DEF GoesOn
<1>4. CASE m.type = "count" /\ MissionCount(g, m)
  BY <1>1, <1>3, <1>4 DEF MissionCount, Refuse, End, fcVars, MayStart, Handles, Begins, Ends
<1>5. CASE m.type = "clear" /\ MissionClearAll(g)
  BY <1>1, <1>3, <1>5 DEF MissionClearAll, Refuse, End, fcVars, Starts, Ends
<1>6. CASE m.type = "partial" /\ WritePartialList(g, m)
  <2>1. CASE ~upload.receiving /\ InitSendRequests(g, m.a, m.b, TRUE, ItemCount)
    BY <1>1, <1>6, <2>1 DEF Handles, Begins
  <2>2. CASE upload' = [upload EXCEPT !.unheard = @ \/ upload.dest = g]
             /\ UNCHANGED <<stored, done>>
    <3>1. /\ upload'.receiving = upload.receiving /\ upload'.dest = upload.dest
          /\ upload'.next = upload.next /\ upload'.first = upload.first
          /\ upload'.last = upload.last /\ upload'.items = upload.items
          /\ upload'.partial = upload.partial
          /\ upload'.unheard = (upload.unheard \/ upload.dest = g)
      BY <1>1, <2>2, UnheardKeeps
    <3> QED BY <1>1, <1>2, <2>2, <3>1 DEF GoesOn
  <2> QED BY <1>6, <2>1, <2>2 DEF WritePartialList
<1>7. CASE m.type = "item" /\ MissionItem(g, m)
  <2>1. ~Starts(m)
    BY <1>7 DEF Starts
  <2>2. CASE ItemFails(g)
    BY <2>2 DEF ItemFails, End, Ends
  <2>3. CASE UNCHANGED fcVars
    BY <1>3, <2>1, <2>3 DEF fcVars
  <2>4. CASE upload.receiving /\ Expected(g, m) /\ ~ItemRefused(m) /\ ItemAndNext(g, m)
    BY <1>1, <1>7, <2>4 DEF Handles, TakesItem
  <2>5. CASE upload.receiving /\ Expected(g, m) /\ ~ItemRefused(m) /\ LastItem(g, m)
    BY <1>1, <1>7, <2>5 DEF Handles, TakesLast, LastItem, End, Ends
  <2> QED BY <1>7, <2>2, <2>3, <2>4, <2>5 DEF MissionItem, Refuse
<1>8. CASE /\ m.type \in {"request_list", "request_int", "request"}
           /\ MissionRequestList(g) \/ MissionRequestInt(g, m) \/ MissionRequest(g, m)
  BY <1>3, <1>8 DEF MissionRequestList, MissionRequestInt, MissionRequest, fcVars, Starts
<1> QED
  BY <1>4, <1>5, <1>6, <1>7, <1>8 DEF FcReceives, m

LEMMA UploadStep ==
  ASSUME MissionInv, StoreTypes, LinksFit, [MissionNext]_missionVars
  PROVE  GoesOn \/ Ends \/ \E g \in Gcs : FcReceives(g) /\ Handles(g, toFc[g][1])
<1>1. ASSUME NEW g \in Gcs, FcReceives(g)
      PROVE  GoesOn \/ Ends \/ Handles(g, toFc[g][1])
  BY <1>1, ReceivesStep
<1>2. ASSUME NEW g \in Gcs, LinkLoses(g)
      PROVE  GoesOn
  <2>1. UNCHANGED <<kind, stored, done, station>>
    BY <1>2 DEF LinkLoses
  <2>2. /\ UploadShape /\ toFc \in [Gcs -> Seq(Messages)]
        /\ upload.receiving => upload.dest \in Gcs
    BY DEF MissionInv, StoreTypes
  <2>3. CASE UNCHANGED <<toFc, upload>>
    BY <2>1, <2>2, <2>3, HeadStays DEF GoesOn, Rests
  <2>4. CASE /\ toFc' = [toFc EXCEPT ![g] = Tail(toFc[g])] /\ toFc[g] # <<>>
             /\ upload' = [upload EXCEPT !.unheard =
                  @ \/ (upload.dest = g /\ Head(toFc[g]).type \in {"count", "partial"})]
    <3>1. /\ upload'.receiving = upload.receiving /\ upload'.dest = upload.dest
          /\ upload'.next = upload.next /\ upload'.first = upload.first
          /\ upload'.last = upload.last /\ upload'.items = upload.items
          /\ upload'.partial = upload.partial
          /\ upload'.unheard = (upload.unheard \/
               (upload.dest = g /\ Head(toFc[g]).type \in {"count", "partial"}))
      BY <2>2, <2>4, UnheardKeeps
    <3>2. upload.receiving /\ upload.dest # g => Rests(upload.dest)
      BY <2>1, <2>2, <2>4 DEF Rests
    <3>3. upload.receiving /\ TakesHead(upload.dest) => upload.dest = g
      BY <2>2, <3>2, HeadStays
    <3>4. Head(toFc[g]) = toFc[g][1]
      BY <2>2, <2>4
    <3> QED BY <2>1, <3>1, <3>3, <3>4 DEF GoesOn, Starts
  <2> QED BY <1>2, <2>3, <2>4 DEF LinkLoses
<1>3. ASSUME \A g \in Gcs : ~FcReceives(g) /\ ~LinkLoses(g), upload.receiving
      PROVE  ~TakesHead(upload.dest)
  <2>1. upload.dest \in Gcs
    BY <1>3 DEF StoreTypes
  <2> QED BY <1>3, <2>1, LinkStep, HeadStays
<1>4. CASE UNCHANGED <<kind, stored, upload, done>> /\ \A g \in Gcs : ~FcReceives(g) /\ ~LinkLoses(g)
  BY <1>3, <1>4 DEF GoesOn
<1>5. ASSUME NEW g \in Gcs, StationUploads(g) \/ StationDownloads(g)
                           \/ StationReceives(g) \/ StationGivesUp(g)
      PROVE  UNCHANGED <<kind, stored, upload, done>>
  BY <1>5 DEF StationUploads, StationDownloads, StationReceives, StationGivesUp, fcVars
<1>6. CASE UploadTimesOut
  BY <1>6 DEF UploadTimesOut, Ends
<1>7. ASSUME Resend \/ QueuedRequestSend \/ MissionClock \/ UNCHANGED missionVars
      PROVE  UNCHANGED <<kind, stored, upload, done>>
  BY <1>7 DEF Resend, QueuedRequestSend, MissionClock, missionVars, fcVars
<1> QED
  BY <1>1, <1>2, <1>4, <1>5, <1>6, <1>7 DEF MissionNext

AcceptInv == SaidInOrder /\ OfOneUpload /\ UnderWay /\ AcceptedAsSent

LEMMA NoUploadAccepts ==
  ASSUME upload' = NoUpload
  PROVE  OfOneUpload' /\ UnderWay'
BY DEF NoUpload, OfOneUpload, UnderWay

LEMMA GoesOnAccepts ==
  ASSUME MissionInv, StoreTypes, [MissionNext]_missionVars, AcceptInv, GoesOn
  PROVE  (OfOneUpload /\ UnderWay /\ AcceptedAsSent)'
<1>1. Target' = Target
  BY DEF GoesOn, Target
<1>2. ASSUME upload.receiving, ~upload'.unheard
      PROVE  \E u \in Nat : Taken(u)' /\ OnlyOf(upload.dest, u)'
  <2>1. PICK u \in Nat : Taken(u) /\ OnlyOf(upload.dest, u)
    BY <1>2 DEF AcceptInv, OfOneUpload, GoesOn
  <2>2. upload.dest \in Gcs /\ (TakesHead(upload.dest) => ~Starts(toFc[upload.dest][1]))
    BY <1>2 DEF StoreTypes, GoesOn
  <2>3. PICK d \in Gcs : d = upload.dest
    BY <2>2
  <2>4. OnlyOf(d, u)'
    BY <2>1, <2>2, <2>3, OnlyOfStep
  <2>5. upload'.dest = d
    BY <2>3 DEF GoesOn
  <2>6. Taken(u)'
    BY <1>1, <2>1 DEF Taken, GoesOn
  <2> QED BY <2>4, <2>5, <2>6
<1>3. OfOneUpload'
  BY <1>2 DEF OfOneUpload, GoesOn
<1>4. UnderWay' /\ AcceptedAsSent'
  BY <1>1 DEF AcceptInv, UnderWay, AcceptedAsSent, GoesOn
<1> QED BY <1>3, <1>4

LEMMA BeginsAccepts ==
  ASSUME MissionInv, StoreTypes, AcceptInv, NEW g \in Gcs, FcReceives(g),
         Begins(g, toFc[g][1])
  PROVE  (OfOneUpload /\ UnderWay /\ AcceptedAsSent)'
<1> DEFINE m == toFc[g][1]
<1>1. m \in Messages /\ m = Head(toFc[g]) /\ TakesHead(g)
  BY HandledTyped DEF MissionInv, FcReceives, TakesHead
<1>2. m.a \in Int /\ m.b \in Int /\ m.id \in Nat
  BY <1>1 DEF Messages
<1>12. PICK first \in Int : \E last, partial, n : InitSendRequests(g, first, last, partial, n)
  <2>1. Begins(g, m)
    OBVIOUS
  <2> HIDE DEF m
  <2>2. CASE m.type = "count" /\ InitSendRequests(g, 0, m.a - 1, FALSE, m.a)
    <3>1. 0 \in Int
      OBVIOUS
    <3> QED BY <2>2, <3>1
  <2>3. CASE InitSendRequests(g, m.a, m.b, TRUE, ItemCount)
    BY <1>2, <2>3
  <2> QED BY <2>1, <2>2, <2>3 DEF Begins
<1>3. PICK last, partial, n : InitSendRequests(g, first, last, partial, n)
  BY <1>12
<1>4. /\ upload'.receiving /\ upload'.dest = g /\ upload'.next = first /\ upload'.first = first
      /\ done' = NotDone
  BY <1>3 DEF InitSendRequests
<1>5. PICK u \in Nat : u = m.id
  BY <1>2
<1>6. Starts(m)
  BY DEF Begins, Starts
<1>7. OnlyOf(g, u)'
  BY <1>1, <1>5, <1>6, OnlyOfStarts DEF AcceptInv
<1>8. Taken(u)'
  BY <1>4 DEF Taken
<1>9. OfOneUpload'
  BY <1>4, <1>7, <1>8 DEF OfOneUpload
<1>10. AcceptedAsSent'
  BY <1>4 DEF AcceptedAsSent, NotDone
<1>11. ~upload'.partial => upload'.first = 0 /\ Len(Target') <= upload'.last + 1
  <2> HIDE DEF m
  <2>1. CASE /\ m.a \in 1..MaxItems /\ stored' = Truncated(m.a) /\ kind' = kind
             /\ InitSendRequests(g, 0, m.a - 1, FALSE, m.a)
    <3>1. /\ upload'.receiving /\ upload'.first = 0 /\ upload'.last = m.a - 1
          /\ upload'.items = IF kind = "fence" THEN [i \in 1..m.a |-> Blank] ELSE <<>>
      BY <2>1 DEF InitSendRequests
    <3>2. kind = "fence" => Len(upload'.items) = m.a
      BY <1>2, <2>1, <3>1
    <3>3. kind # "fence" => Len(stored') <= m.a
      BY <2>1, TruncatedTyped
    <3> QED BY <1>2, <2>1, <3>1, <3>2, <3>3 DEF Target
  <2>2. CASE InitSendRequests(g, m.a, m.b, TRUE, ItemCount)
    BY <2>2 DEF InitSendRequests
  <2> QED BY <2>1, <2>2 DEF Begins, m
<1> QED BY <1>4, <1>9, <1>10, <1>11 DEF UnderWay

(* The item taken is the uploader's next, and of the upload taken so far.  *)
LEMMA ItemOfUpload ==
  ASSUME MissionInv, StoreTypes, AcceptInv, NEW g \in Gcs, toFc[g] # <<>>, NEW m,
         m = toFc[g][1], m.type = "item", upload.receiving, Expected(g, m), ~upload.unheard
  PROVE  m.id \in 1..MaxUploads /\ Taken(m.id) /\ OnlyOf(g, m.id)
<1>1. PICK u \in Nat : Taken(u) /\ OnlyOf(g, u)
  BY DEF AcceptInv, OfOneUpload, Expected
<1>2. toFc[g] \in Seq(Messages)
  BY DEF MissionInv
<1>3. 1 \in DOMAIN toFc[g] /\ m \in Messages
  <2> HIDE DEF Messages
  <2> QED BY <1>2
<1>4. ~Announced(toFc[g], 1, 1, m.id)
  BY DEF Announced
<1>5. m.id = u
  BY <1>1, <1>3, <1>4 DEF OnlyOf, ArrivesOf
<1> QED BY <1>1, <1>3, <1>5 DEF Messages, Bounded

LEMMA TakesItemAccepts ==
  ASSUME MissionInv, StoreTypes, [MissionNext]_missionVars, AcceptInv, NEW g \in Gcs,
         FcReceives(g), TakesItem(g, toFc[g][1])
  PROVE  (OfOneUpload /\ UnderWay /\ AcceptedAsSent)'
<1> PICK m : m = toFc[g][1]
  OBVIOUS
<1>1. /\ m \in Messages /\ toFc[g] # <<>> /\ TakesItem(g, m)
      /\ kind' = kind /\ upload.receiving /\ m.type = "item"
      /\ m.a = upload.next /\ g = upload.dest /\ Expected(g, m) /\ ~ItemRefused(m)
      /\ ItemAndNext(g, m)
  BY HandledTyped DEF MissionInv, FcReceives, TakesItem, Expected
<1>2. /\ m.a \in Nat /\ Target \in Seq(Items) /\ m.a <= Len(Target)
      /\ Len(WithItem(Target, m)) = IF m.a < Len(Target) THEN Len(Target) ELSE m.a + 1
      /\ WithItem(Target, m) \in Seq(Items)
      /\ WithItem(Target, m)[m.a + 1] = Item(m.id, m.a)
      /\ \A i \in DOMAIN Target : i # m.a + 1 => WithItem(Target, m)[i] = Target[i]
      /\ kind = "fence" => Len(WithItem(Target, m)) = Len(Target)
  BY <1>1, TakenTyped
<1>3. /\ upload'.receiving = upload.receiving /\ upload'.dest = upload.dest
      /\ upload'.next = upload.next + 1 /\ upload'.first = upload.first
      /\ upload'.last = upload.last /\ upload'.partial = upload.partial
      /\ upload'.unheard = upload.unheard
      /\ upload'.items = IF kind = "fence" THEN WithItem(upload.items, m) ELSE upload.items
  BY <1>1, NextKeeps DEF MissionInv
<1>4. /\ upload.next < upload.last /\ done' = done
      /\ stored' = IF kind = "fence" THEN stored ELSE WithItem(stored, m)
  BY <1>1 DEF ItemAndNext
<1>5. Target' = WithItem(Target, m)
  BY <1>1, <1>3, <1>4 DEF Target
<1>6. done = NotDone /\ upload.first \in Int /\ upload.next \in Int /\ upload.last \in Int
      /\ upload.first <= upload.next
      /\ (~upload.partial => upload.first = 0 /\ Len(Target) <= upload.last + 1)
  BY <1>1 DEF AcceptInv, UnderWay, StoreTypes, MissionInv, UploadShape
<1>7. UnderWay'
  <2>1. Len(Target) \in Nat
    BY <1>2
  <2>2. ~upload.partial => Len(Target') <= upload.last + 1
    BY <1>1, <1>2, <1>4, <1>5, <1>6, <2>1
  <2> QED BY <1>3, <1>4, <1>6, <2>2 DEF UnderWay
<1>8. AcceptedAsSent'
  BY <1>4, <1>6 DEF AcceptedAsSent, NotDone
<1>9. ASSUME ~upload.unheard
      PROVE  \E u \in Nat : Taken(u)' /\ OnlyOf(upload.dest, u)'
  <2>1. m.id \in 1..MaxUploads /\ Taken(m.id) /\ OnlyOf(g, m.id)
    BY <1>1, <1>9, ItemOfUpload
  <2>2. PICK u \in Nat : u = m.id
    BY <2>1, MissionAssumption
  <2>3. OnlyOf(g, u)'
    <3>1. TakesHead(g) => ~Starts(toFc[g][1])
      BY <1>1 DEF Starts
    <3> QED BY <2>1, <2>2, <3>1, OnlyOfStep
  <2>4. ASSUME NEW s \in upload.first..upload.next
        PROVE  s + 1 \in DOMAIN Target' /\ Target'[s + 1] = Item(u, s)
    <3>1. CASE s = upload.next
      <4>1. m.a + 1 \in 1..Len(WithItem(Target, m)) /\ DOMAIN WithItem(Target, m) = 1..Len(WithItem(Target, m))
        BY <1>2
      <4> QED BY <1>1, <1>2, <1>5, <2>2, <3>1, <4>1
    <3>2. CASE s < upload.next
      <4>1. s \in upload.first..(upload.next - 1)
        BY <1>6, <3>2
      <4>2. s + 1 \in DOMAIN Target /\ Target[s + 1] = Item(u, s)
        BY <2>1, <2>2, <4>1 DEF Taken
      <4>3. s + 1 # m.a + 1 /\ DOMAIN Target = 1..Len(Target)
            /\ DOMAIN WithItem(Target, m) = 1..Len(WithItem(Target, m))
        BY <1>1, <1>2, <1>6, <3>2
      <4>4. Len(WithItem(Target, m)) \in Nat /\ Len(WithItem(Target, m)) >= Len(Target)
        BY <1>2
      <4>5. s + 1 \in DOMAIN WithItem(Target, m)
        BY <1>2, <4>2, <4>3, <4>4
      <4> QED BY <1>2, <1>5, <4>2, <4>3, <4>5
    <3> QED BY <1>6, <3>1, <3>2
  <2>5. Taken(u)'
    BY <1>3, <1>6, <2>4 DEF Taken
  <2> QED BY <1>1, <1>3, <2>3, <2>5
<1>10. OfOneUpload'
  BY <1>3, <1>9 DEF OfOneUpload
<1> QED BY <1>7, <1>8, <1>10

LEMMA TakesLastAccepts ==
  ASSUME MissionInv, StoreTypes, AcceptInv, NEW g \in Gcs,
         FcReceives(g), TakesLast(g, toFc[g][1])
  PROVE  AcceptedAsSent'
<1> PICK m : m = toFc[g][1]
  OBVIOUS
<1> DEFINE q == WithItem(Target, m)
<1>1. /\ m \in Messages /\ toFc[g] # <<>> /\ upload.receiving /\ m.type = "item"
      /\ m.a = upload.next /\ g = upload.dest /\ Expected(g, m) /\ ~ItemRefused(m)
      /\ upload.next >= upload.last /\ stored' = Completed(q)
      /\ done' = IF upload.unheard THEN NotDone
                 ELSE [id |-> m.id, first |-> upload.first,
                       last |-> upload.last, whole |-> ~upload.partial]
  BY HandledTyped DEF MissionInv, FcReceives, TakesLast, Expected
<1>2. /\ m.a \in Nat /\ Target \in Seq(Items) /\ m.a <= Len(Target)
      /\ Len(q) = IF m.a < Len(Target) THEN Len(Target) ELSE m.a + 1
      /\ q \in Seq(Items) /\ q[m.a + 1] = Item(m.id, m.a)
      /\ \A i \in DOMAIN Target : i # m.a + 1 => q[i] = Target[i]
      /\ kind = "fence" => Len(q) = Len(Target)
  BY <1>1, TakenTyped
<1> HIDE DEF q
<1>3. CASE upload.unheard
  BY <1>1, <1>3 DEF AcceptedAsSent, NotDone
<1>4. CASE ~upload.unheard
  <2>1. m.id \in 1..MaxUploads /\ Taken(m.id)
    BY <1>1, <1>4, ItemOfUpload
  <2>2. /\ upload.first \in Int /\ upload.next \in Int /\ upload.last \in Int
        /\ upload.next = upload.last /\ stored \in Seq(Items)
        /\ ~upload.partial => upload.first = 0 /\ Len(Target) <= upload.last + 1
    BY <1>1 DEF AcceptInv, UnderWay, StoreTypes, MissionInv, UploadShape
  <2>3. kind = "fence" /\ upload.partial => Len(q) = Len(stored)
    BY <1>1, <1>2 DEF StoreTypes, Target
  <2>4. /\ stored' \in Seq(Items) /\ Len(stored') = Len(q)
        /\ \A i \in DOMAIN q : q[i] # Blank => stored'[i] = q[i]
    BY <1>1, <1>2, <2>2, <2>3, CompletedTyped
  <2>5. /\ Len(q) \in Nat /\ Len(Target) \in Nat /\ DOMAIN q = 1..Len(q)
        /\ DOMAIN Target = 1..Len(Target) /\ DOMAIN stored' = 1..Len(stored')
    BY <1>2, <2>4
  <2>6. ASSUME NEW s \in upload.first..upload.last
        PROVE  s + 1 \in DOMAIN q /\ q[s + 1] = Item(m.id, s)
    <3>1. CASE s = upload.last
      BY <1>1, <1>2, <2>2, <2>5, <3>1
    <3>2. CASE s < upload.last
      <4>1. s \in upload.first..(upload.next - 1)
        BY <2>2, <3>2
      <4>2. s + 1 \in DOMAIN Target /\ Target[s + 1] = Item(m.id, s) /\ s + 1 # m.a + 1
        BY <1>1, <2>1, <2>2, <3>2, <4>1 DEF Taken
      <4>3. s + 1 \in DOMAIN q
        BY <1>2, <2>5, <4>2
      <4> QED BY <1>2, <4>2, <4>3
    <3> QED BY <2>2, <3>1, <3>2
  <2>7. ASSUME NEW s \in upload.first..upload.last
        PROVE  s + 1 \in DOMAIN stored' /\ stored'[s + 1] = Item(m.id, s)
    <3>1. Item(m.id, s) # Blank
      BY <2>1 DEF Item, Blank
    <3> QED BY <2>4, <2>5, <2>6, <3>1
  <2>8. ~upload.partial => Len(stored') = upload.last + 1
    BY <1>1, <1>2, <2>2, <2>4, <2>5
  <2>9. /\ done'.id = m.id /\ done'.first = upload.first /\ done'.last = upload.last
        /\ done'.whole = ~upload.partial
    BY <1>1, <1>4
  <2> QED BY <2>7, <2>8, <2>9 DEF AcceptedAsSent
<1> QED BY <1>3, <1>4

LEMMA EndsAccepts ==
  ASSUME AcceptInv, Ends
  PROVE  AcceptedAsSent'
<1>1. CASE UNCHANGED <<stored, done>>
  BY <1>1 DEF AcceptInv, AcceptedAsSent
<1>2. CASE done' = NotDone
  BY <1>2 DEF AcceptedAsSent, NotDone
<1>3. ASSUME stored' = <<>>, NEW id,
             done' = [id |-> id, first |-> 0, last |-> -1, whole |-> TRUE]
      PROVE  AcceptedAsSent'
  BY <1>3 DEF AcceptedAsSent
<1> QED BY <1>1, <1>2, <1>3 DEF Ends

(* What is acknowledged as accepted is what the station sent, item by item *)
(* and for a whole upload nothing else: because the vehicle starts over    *)
(* with every MISSION_COUNT it hears from the uploader, and between two of *)
(* them a FIFO link brings the items of one upload only.                   *)
THEOREM AcceptedIsWhatWasSent == MissionSpec => []AcceptedAsSent
<1> DEFINE Inv == MissionInv /\ StoreTypes /\ LinksFit /\ AcceptInv
<1>1. MissionInit => Inv
  <2>1. MissionInit => SaidInOrder
    <3> SUFFICES ASSUME MissionInit, NEW g \in Gcs
                 PROVE  InOrder(toFc[g]) /\ ~station[g].up
      BY DEF SaidInOrder
    <3>1. toFc[g] = <<>> /\ ~station[g].up
      BY DEF MissionInit, Resting
    <3> QED BY <3>1 DEF InOrder
  <2>2. MissionInit => OfOneUpload /\ UnderWay /\ AcceptedAsSent
    BY DEF MissionInit, NoUpload, OfOneUpload, UnderWay, AcceptedAsSent, NotDone
  <2> QED BY <2>1, <2>2, MissionInvInit, StoreTypesInit DEF AcceptInv
<1>2. Inv /\ [MissionNext]_missionVars => Inv'
  <2> SUFFICES ASSUME Inv, [MissionNext]_missionVars PROVE Inv'
    OBVIOUS
  <2>1. (MissionInv /\ StoreTypes /\ LinksFit)'
    BY MissionInvStep, StoreTypesStep, LinksFitStep
  <2>2. SaidInOrder'
    BY SaidInOrderStep DEF AcceptInv
  <2>3. CASE GoesOn
    BY <2>1, <2>2, <2>3, GoesOnAccepts DEF AcceptInv
  <2>4. CASE Ends
    BY <2>1, <2>2, <2>4, EndsAccepts, NoUploadAccepts DEF AcceptInv, Ends
  <2>5. ASSUME NEW g \in Gcs, FcReceives(g), Handles(g, toFc[g][1])
        PROVE  (OfOneUpload /\ UnderWay /\ AcceptedAsSent)'
    <3>1. CASE TakesLast(g, toFc[g][1])
      BY <2>5, <3>1, TakesLastAccepts, NoUploadAccepts DEF TakesLast
    <3> QED BY <2>5, <3>1, BeginsAccepts, TakesItemAccepts DEF Handles
  <2> QED BY <2>1, <2>2, <2>3, <2>4, <2>5, UploadStep DEF AcceptInv
<1>3. Inv => AcceptedAsSent
  BY DEF AcceptInv
<1> QED
  BY <1>1, <1>2, <1>3, PTL DEF MissionSpec
=============================================================================
