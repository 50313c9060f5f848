--------------------------- MODULE EventListings ---------------------------
(***************************************************************************)
(* One event from draft to removal, and the public listings it appears in: *)
(* EventsService over CacheService (read-through with one load per process *)
(* and key, invalidation by SCAN and UNLINK) over Redis.  A listing shows  *)
(* of the event its own row, the stalls booked, and more that other        *)
(* services own; only those who change the row drop the cache.             *)
(***************************************************************************)
EXTENDS Integers, FiniteSets

CONSTANTS
  Organisers,    \* handlers of update, submit, remove and review
  Processes,     \* API processes, each with its own map of loads in flight
  Keys,          \* cache keys: a listing and its filters
  MaxVersions, MaxListed, MaxOthers, MaxCacheFaults   \* bounds, see the README

ASSUME ListingConstants ==
  MaxVersions \in Nat \ {0} /\ {MaxListed, MaxOthers, MaxCacheFaults} \subseteq Nat

VARIABLES
  status,       \* events.status, "none" before create and "gone" after remove
  version,      \* edits of what its row holds, and the rating that create() writes
  autoApprove,  \* not production, or PREVIEW_MODE
  bookedRows,   \* bookings of its stalls, of any status
  booked,       \* the sum of stalls.booked
  others,       \* changes of what else is shown, see OthersChange
  opc, toDrop,  \* each organiser: step, and the keys its SCAN has not passed
  entry,        \* Redis: what each key holds
  load,         \* each process: the load in flight for each key
  tainted,      \* history: keys that an event of a known kind may leave stale
  cacheFaults

bookingVars == <<bookedRows, booked>>
eventVars   == <<status, version, autoApprove, bookingVars, others>>
cacheVars   == <<entry, load, tainted>>
listingVars == <<eventVars, opc, toDrop, cacheVars, cacheFaults>>

-----------------------------------------------------------------------------
Nothing(n) == [row |-> n, booked |-> 0, others |-> 0]

Absent == Nothing(0)      \* a listing without the event
Empty  == Nothing(-1)     \* no entry in Redis
NoLoad == Nothing(-2)
Begun  == Nothing(-3)     \* a load that has not read the database yet

Shown ==
  IF status = "live" THEN [row |-> version, booked |-> booked, others |-> others] ELSE Absent

ListingInit ==
  /\ status \in {"none", "live"} /\ version = 1
  /\ autoApprove \in BOOLEAN
  /\ bookedRows = 0 /\ booked = 0 /\ others = 0
  /\ opc = [o \in Organisers |-> "idle"]
  /\ toDrop = [o \in Organisers |-> {}]
  /\ entry = [k \in Keys |-> Empty]
  /\ load = [p \in Processes |-> [k \in Keys |-> NoLoad]]
  /\ tainted = {} /\ cacheFaults = 0

HasRead(p, k) == load[p][k].row >= 0

(* A load that will store a row that is no longer shown.                   *)
StaleLoad(k) == \E p \in Processes : HasRead(p, k) /\ load[p][k].row # Shown.row

Exists == status \notin {"none", "gone"}

(* A committed change of the row, and the keys its handler then drops.     *)
Commit(o, from, keys) ==
  /\ opc[o] = from
  /\ opc' = [opc EXCEPT ![o] = IF keys = {} THEN "idle" ELSE "dropping"]
  /\ toDrop' = [toDrop EXCEPT ![o] = keys]

-----------------------------------------------------------------------------
Create ==
  /\ status = "none"
  /\ status' = "draft"
  /\ UNCHANGED <<version, autoApprove, bookingVars, others, opc, toDrop, cacheVars, cacheFaults>>

(* Mutant: an edit drops no cache.                                         *)
UpdateKeepsCache(o) ==
  /\ Exists /\ version < MaxVersions
  /\ version' = version + 1
  /\ Commit(o, "idle", {})
  /\ UNCHANGED <<status, autoApprove, bookingVars, others, cacheVars, cacheFaults>>

(* update, or the organiser's rating after a review of a live event.       *)
Update(o) ==
  /\ Exists /\ version < MaxVersions
  /\ version' = version + 1
  /\ Commit(o, "idle", IF status = "live" THEN Keys ELSE {})
  /\ UNCHANGED <<status, autoApprove, bookingVars, others, cacheVars, cacheFaults>>

(* submit, from whatever status; a production server takes a live event    *)
(* back to pending and drops no cache.                                     *)
Submit(o) ==
  /\ Exists
  /\ status' = IF autoApprove THEN "live" ELSE "pending_verification"
  /\ Commit(o, "idle", IF autoApprove THEN Keys ELSE {})
  /\ tainted' = IF ~autoApprove /\ status = "live" THEN Keys ELSE tainted
  /\ UNCHANGED <<version, autoApprove, bookingVars, others, entry, load, cacheFaults>>

(* A booking of one of its stalls (see Bookings), which drops no cache.    *)
BookingInserted ==
  /\ status = "live" /\ bookedRows < MaxListed
  /\ bookedRows' = bookedRows + 1 /\ booked' = booked + 1
  /\ UNCHANGED <<status, version, autoApprove, others, opc, toDrop, cacheVars, cacheFaults>>

(* A cancellation (see Bookings): the slot is given back, the row stays.   *)
BookingEnded ==
  /\ booked > 0
  /\ booked' = booked - 1
  /\ UNCHANGED <<status, version, autoApprove, bookedRows, others, opc, toDrop, cacheVars,
                 cacheFaults>>

(* What drops no cache either: the organiser is verified, rejected or      *)
(* renamed, a boost is bought or ends, the society's reputation changes,   *)
(* the event starts or ends.                                               *)
OthersChange ==
  /\ Exists /\ others < MaxOthers
  /\ others' = others + 1
  /\ UNCHANGED <<status, version, autoApprove, bookingVars, opc, toDrop, cacheVars, cacheFaults>>

RemoveRead(o) ==
  /\ Exists /\ bookedRows = 0
  /\ opc[o] = "idle"
  /\ opc' = [opc EXCEPT ![o] = "removing"]
  /\ UNCHANGED <<eventVars, toDrop, cacheVars, cacheFaults>>

(* Mutant: stalls and bookings go with their event.                        *)
RemoveCascades(o) ==
  /\ opc[o] = "removing" /\ Exists
  /\ status' = "gone"
  /\ Commit(o, "removing", Keys)
  /\ UNCHANGED <<version, autoApprove, bookingVars, others, cacheVars, cacheFaults>>

(* The delete: refused by the foreign key of a booking made since the      *)
(* count, or finding the event gone.                                       *)
RemoveCommit(o) ==
  /\ opc[o] = "removing"
  /\ IF Exists /\ bookedRows = 0
     THEN status' = "gone" /\ Commit(o, "removing", Keys)
     ELSE status' = status /\ Commit(o, "removing", {})
  /\ UNCHANGED <<version, autoApprove, bookingVars, others, cacheVars, cacheFaults>>

-----------------------------------------------------------------------------
(* The SCAN passes a key and UNLINKs it.  A load that has read the row as  *)
(* it was before may store that afterwards.                                *)
DropKey(o, k) ==
  /\ k \in toDrop[o]
  /\ toDrop' = [toDrop EXCEPT ![o] = @ \ {k}]
  /\ opc' = [opc EXCEPT ![o] = IF toDrop[o] = {k} THEN "idle" ELSE @]
  /\ entry' = [entry EXCEPT ![k] = Empty]
  /\ tainted' = IF StaleLoad(k) THEN tainted \cup {k} ELSE tainted \ {k}
  /\ UNCHANGED <<eventVars, load, cacheFaults>>

(* Redis fails, or the process dies: the keys left are not dropped.        *)
DropFails(o) ==
  /\ toDrop[o] # {} /\ cacheFaults < MaxCacheFaults
  /\ cacheFaults' = cacheFaults + 1
  /\ tainted' = tainted \cup toDrop[o]
  /\ toDrop' = [toDrop EXCEPT ![o] = {}]
  /\ opc' = [opc EXCEPT ![o] = "idle"]
  /\ UNCHANGED <<eventVars, entry, load>>

(* A reader's GET finds no entry, perhaps before another's load stores one.*)
LoadBegin(p, k) ==
  /\ load[p][k] = NoLoad
  /\ load' = [load EXCEPT ![p][k] = Begun]
  /\ UNCHANGED <<eventVars, opc, toDrop, entry, tainted, cacheFaults>>

LoadRead(p, k) ==
  /\ load[p][k] = Begun
  /\ load' = [load EXCEPT ![p][k] = Shown]
  /\ UNCHANGED <<eventVars, opc, toDrop, entry, tainted, cacheFaults>>

(* The result is stored, if Redis takes it, and those who joined the load  *)
(* get it.                                                                 *)
LoadStore(p, k) ==
  /\ HasRead(p, k)
  /\ \/ entry' = [entry EXCEPT ![k] = load[p][k]] /\ cacheFaults' = cacheFaults
     \/ cacheFaults < MaxCacheFaults /\ cacheFaults' = cacheFaults + 1 /\ entry' = entry
  /\ load' = [load EXCEPT ![p][k] = NoLoad]
  /\ UNCHANGED <<eventVars, opc, toDrop, tainted>>

(* Mutant: entries have no TTL.                                            *)
ExpireNever(k) == FALSE /\ UNCHANGED listingVars

(* Thirty seconds after it was stored.                                     *)
Expire(k) ==
  /\ entry[k] # Empty
  /\ entry' = [entry EXCEPT ![k] = Empty]
  /\ tainted' = IF StaleLoad(k) THEN tainted ELSE tainted \ {k}
  /\ UNCHANGED <<eventVars, opc, toDrop, load, cacheFaults>>

ListingNext ==
  \/ Create \/ BookingInserted \/ BookingEnded \/ OthersChange
  \/ \E o \in Organisers :
       \/ Update(o) \/ Submit(o) \/ RemoveRead(o) \/ RemoveCommit(o) \/ DropFails(o)
       \/ \E k \in Keys : DropKey(o, k)
  \/ \E p \in Processes, k \in Keys : LoadBegin(p, k) \/ LoadRead(p, k) \/ LoadStore(p, k)
  \/ \E k \in Keys : Expire(k)

ListingSpec == ListingInit /\ [][ListingNext]_listingVars

(* Handlers go on, and Redis expires what it holds.                        *)
ListingFairness ==
  /\ \A o \in Organisers, k \in Keys : WF_listingVars(DropKey(o, k))
  /\ \A p \in Processes, k \in Keys : WF_listingVars(LoadRead(p, k) \/ LoadStore(p, k))
  /\ \A k \in Keys : WF_listingVars(Expire(k))

ListingFairSpec == ListingSpec /\ ListingFairness

-----------------------------------------------------------------------------
Results ==
  {Absent} \cup [row : 1..MaxVersions, booked : 0..MaxListed, others : 0..MaxOthers]

ListingTypeOK ==
  /\ status \in {"none", "draft", "pending_verification", "live", "gone"}
  /\ version \in 1..MaxVersions /\ bookedRows \in 0..MaxListed
  /\ booked \in 0..bookedRows /\ others \in 0..MaxOthers
  /\ opc \in [Organisers -> {"idle", "removing", "dropping"}]
  /\ toDrop \in [Organisers -> SUBSET Keys]
  /\ entry \in [Keys -> Results \cup {Empty}]
  /\ load \in [Processes -> [Keys -> Results \cup {NoLoad, Begun}]]
  /\ tainted \subseteq Keys

(* "Edits to a published event ... need to be visible immediately in       *)
(* public listings": an entry of the cache has the event's row as it is,   *)
(* or does not list it if it is not live, once the writers of the row have *)
(* passed its key.  An older row comes from a load that was under way      *)
(* then, a failure of Redis, or an unpublishing submit.  Nothing of the    *)
(* kind holds for the stalls booked and the other things shown.            *)
EditsAreListed ==
  \A k \in Keys \ tainted :
    entry[k].row \in {Empty.row, Shown.row} \/ \E o \in Organisers : k \in toDrop[o]

(* An event with bookings is not removed, however late they come.          *)
BookedEventStays == bookedRows > 0 => status # "gone"

(* Whatever raced or failed, and whoever drops no cache, the listings end  *)
(* up showing the event as it is left, with its free stalls and the rest.  *)
ListingsCatchUp == <>[](\A k \in Keys : entry[k] \in {Empty, Shown})
=============================================================================
