------------------------------- MODULE WebSearch -------------------------------
(***************************************************************************)
(* web_search (server/execution/web_search.py) as its callers interleave   *)
(* in one event loop: the gate of the pre-hooks, the cache of answers, the *)
(* bucket that limits a session, and the provider that is awaited.  What   *)
(* the gate counts is HookGate's subject; here it lets pass or denies.     *)
(***************************************************************************)
EXTENDS Integers, Sequences, FiniteSets, SequencesExt

CONSTANTS
  Caller, Session,
  Key,         \* query, provider and max_results, as the cache knows them
  Unknown,     \* the keys whose provider web_search does not know
  RateLimit,       \* calls per session and window; 0 turns the bucket off
  RateWindow, CacheSize, CacheLife,
  EndOfTime, MaxCalls    \* bounds: the clock, calls begun

ASSUME SearchAssumption ==
  /\ Session # {} /\ Key # {} /\ Unknown \subseteq Key
  /\ RateWindow \in Nat \ {0} /\ CacheSize \in Nat \ {0}
  /\ {RateLimit, CacheLife, EndOfTime, MaxCalls} \subseteq Nat

VARIABLES
  now,
  caller,    \* what each call is doing
  bucket,    \* _SESSION_BUCKETS: times of charged calls, oldest first
  store,     \* the cache, least recently used first
  asked,     \* by session: when calls that reached a provider did so
  packets,   \* evidence packets written
  calls

searchVars == <<now, caller, bucket, store, asked, packets, calls>>

Answer == [key : Key, at : 0..EndOfTime, packet : 1..MaxCalls]
NoCall == [pc |-> "idle", session |-> CHOOSE s \in Session : TRUE, key |-> CHOOSE k \in Key : TRUE]

SearchTypeOK ==
  /\ now \in 0..EndOfTime /\ calls \in 0..MaxCalls /\ packets \in 0..MaxCalls
  /\ caller \in [Caller -> [pc : {"idle", "gate", "search", "provider"},
                            session : Session, key : Key]]
  /\ bucket \in [Session -> Seq(0..EndOfTime)] /\ asked \in [Session -> Seq(0..EndOfTime)]
  /\ store \in Seq(Answer)

SearchInit ==
  /\ now = 0 /\ calls = 0 /\ packets = 0 /\ store = <<>>
  /\ caller = [c \in Caller |-> NoCall]
  /\ bucket = [s \in Session |-> <<>>] /\ asked = [s \in Session |-> <<>>]

CallGoes(c, pc) == caller' = [caller EXCEPT ![c].pc = pc]
CallReturns(c) == caller' = [caller EXCEPT ![c] = NoCall]

(* SearchCache, an ordered dictionary. *)
Found(key) == {i \in DOMAIN store : store[i].key = key}
Without(key) == IF Found(key) = {} THEN store ELSE RemoveAt(store, CHOOSE i \in Found(key) : TRUE)
Fresh(e) == now - e.at <= CacheLife
Put(key) ==
  LET all == Append(Without(key), [key |-> key, at |-> now, packet |-> packets'])
  IN store' = SubSeq(all, 1 + (IF Len(all) > CacheSize THEN Len(all) - CacheSize ELSE 0), Len(all))

-----------------------------------------------------------------------------
Calls(c) ==
  /\ caller[c].pc = "idle" /\ calls < MaxCalls /\ calls' = calls + 1
  /\ \E s \in Session, k \in Key :
       caller' = [caller EXCEPT ![c] = [pc |-> "gate", session |-> s, key |-> k]]
  /\ UNCHANGED <<now, bucket, store, asked, packets>>

(* The verdict is awaited and recorded. *)
Passes(c) ==
  /\ caller[c].pc = "gate" /\ CallGoes(c, "search")
  /\ UNCHANGED <<now, bucket, store, asked, packets, calls>>

(* HookDeniedError, or search is disabled. *)
TurnedAway(c) ==
  /\ caller[c].pc = "gate" /\ CallReturns(c)
  /\ UNCHANGED <<now, bucket, store, asked, packets, calls>>

(* An answer still fresh is returned, and is the last to be evicted. *)
Hits(c) ==
  /\ caller[c].pc = "search" /\ CallReturns(c)
  /\ \E i \in Found(caller[c].key) :
       Fresh(store[i]) /\ store' = Append(Without(caller[c].key), store[i])
  /\ UNCHANGED <<now, bucket, asked, packets, calls>>

(* What has left the window is popped from the left. *)
Popped(s, n) == \A i \in 1..n : bucket[s][i] <= now - RateWindow
InBucket(s) ==
  LET n == CHOOSE n \in 0..Len(bucket[s]) :
             Popped(s, n) /\ (n = Len(bucket[s]) \/ ~Popped(s, n + 1))
  IN SubSeq(bucket[s], n + 1, Len(bucket[s]))
Misses(c) ==
  /\ caller[c].pc = "search"
  /\ \A i \in Found(caller[c].key) : ~Fresh(store[i])
  /\ store' = Without(caller[c].key)

(* The bucket is charged with the call before anything is awaited.         *)
Refused(c) ==
  /\ Misses(c) /\ RateLimit > 0 /\ Len(InBucket(caller[c].session)) >= RateLimit
  /\ bucket' = [bucket EXCEPT ![caller[c].session] = InBucket(caller[c].session)]
  /\ CallReturns(c)
  /\ UNCHANGED <<now, asked, packets, calls>>

(* Slip: the call is counted when its answer comes. *)
AskedUncharged(c) ==
  LET s == caller[c].session IN
  /\ Misses(c) /\ (RateLimit > 0 => Len(InBucket(s)) < RateLimit)
  /\ bucket' = [bucket EXCEPT ![s] = InBucket(s)]
  /\ asked' = [asked EXCEPT ![s] = Append(@, now)] /\ CallGoes(c, "provider")
  /\ UNCHANGED <<now, packets, calls>>

(* Even a call for a provider nobody knows is charged.                     *)
Charged(c) ==
  LET s == caller[c].session IN
  /\ Misses(c) /\ (RateLimit > 0 => Len(InBucket(s)) < RateLimit)
  /\ bucket' = IF RateLimit = 0 THEN bucket ELSE [bucket EXCEPT ![s] = Append(InBucket(s), now)]
  /\ IF caller[c].key \in Unknown
       THEN CallReturns(c) /\ UNCHANGED asked
       ELSE CallGoes(c, "provider") /\ asked' = [asked EXCEPT ![s] = Append(@, now)]
  /\ UNCHANGED <<now, packets, calls>>

(* The provider answers, or fails and the failure is an empty answer; both *)
(* become a packet and are cached.                                         *)
Answered(c) ==
  /\ caller[c].pc = "provider" /\ CallReturns(c)
  /\ packets' = packets + 1 /\ Put(caller[c].key)
  /\ UNCHANGED <<now, bucket, asked, calls>>

(* What a provider raises, or the cancellation of its caller, leaves       *)
(* nothing but the charge.                                                 *)
Fails(c) ==
  /\ caller[c].pc = "provider" /\ CallReturns(c)
  /\ UNCHANGED <<now, bucket, store, asked, packets, calls>>

SearchTimePasses ==
  /\ now < EndOfTime /\ now' = now + 1
  /\ UNCHANGED <<caller, bucket, store, asked, packets, calls>>

SearchNext ==
  \/ SearchTimePasses
  \/ \E c \in Caller :
       \/ Calls(c) \/ Passes(c) \/ TurnedAway(c) \/ Hits(c) \/ Refused(c) \/ Charged(c)
       \/ Answered(c) \/ Fails(c)

-----------------------------------------------------------------------------
(* What the cache and the bucket promise (AGENTIC_BOARD_WEB_SEARCH_RATE_   *)
(* LIMIT; search_cache.py: "avoid re-hitting a search provider for         *)
(* identical queries within a short window"): however calls interleave, a  *)
(* session reaches a provider at most RateLimit times in any window, and   *)
(* the cache holds one answer for a question, at most CacheSize, each with *)
(* a packet of its own.                                                    *)
SearchBound ==
  /\ SearchTypeOK
  /\ RateLimit > 0 => \A s \in Session :
       Cardinality({i \in DOMAIN asked[s] : asked[s][i] > now - RateWindow}) <= RateLimit
  /\ Len(store) <= CacheSize
  /\ \A i, j \in DOMAIN store :
       i # j => store[i].key # store[j].key /\ store[i].packet # store[j].packet
=============================================================================
