------------------------------ MODULE HashTable ------------------------------
(***************************************************************************)
(* The open-addressing hash tables of the compiler: Nkht, keyed by names   *)
(* (src/src/ds/nkht.c), which holds every table of constants, globals,     *)
(* locals, functions, types and operations.  Nothing is ever deleted from  *)
(* them.  The text of the keys is kept by KeyStore.                        *)
(*                                                                         *)
(* A key is looked for at its offset, then every "iterate" slots, until it *)
(* or a free slot is met.  The hash is salted at random when the program   *)
(* starts: the model picks any, and keeps it.  offset and iterate are      *)
(* uint32_t; they wrap at a multiple of the capacity, a power of two, so   *)
(* the slots they name are those of unbounded numbers.                     *)
(***************************************************************************)
EXTENDS Naturals, Sequences, FiniteSets, FiniteSetsExt, Functions

CONSTANTS
  Keys, Vals,
  NoVal,        (* stands for no value                                     *)
  NoKey,        (* the null pointer, for a slot whose key was not copied   *)
  KeyBytes,     (* numbers of bytes a key may have, with its terminator    *)
  ArenaCap, FrameSize,   (* see KeyStore                                   *)
  InitialCap,   (* NKHT_INITIAL_NUM_ELEMS                                  *)
  Hashes        (* offsets and iterates the hash of a key may have         *)

ASSUME NoValAssumption == NoVal \notin Vals
ASSUME NoKeyAssumption == NoKey \notin Keys
ASSUME KeyBytesAssumption == KeyBytes \subseteq Nat \ {0}
ASSUME ArenaAssumption == ArenaCap \in Nat /\ FrameSize \in Nat /\ ArenaCap > FrameSize

\* A power of two; a table of one slot would have to grow by more than the four
\* times it does to stay sparse.
ASSUME InitialCapAssumption == InitialCap \in {2, 4, 8, 16, 32, 64, 128, 256}

ASSUME HashesAssumption == Hashes \subseteq [offset : Nat, iterate : Nat]

VARIABLES
  hash,      (* the salted hash of each key                                *)
  bytes,     (* the bytes of each key                                      *)
  slots,     (* table->keys and table->vals, slot by slot                  *)
  len,       (* table->len                                                 *)
  storage, arenas,   (* table->key_backing_storage and what it names       *)
  cursor,    (* iterator->offset                                           *)
  reply,     (* the last call, its return code and its output              *)
  starved,   (* history: the table could not be made larger                *)
  steady,    (* history: no change since the iteration was started         *)
  yielded    (* history: the keys iterated over meanwhile                  *)

vars == <<hash, bytes, slots, len, storage, arenas, cursor, reply, starved, steady, yielded>>

Store == INSTANCE KeyStore

table == <<slots, len, storage, arenas>>

-----------------------------------------------------------------------------
Free        == [occupied |-> FALSE]
Entry(k, text, v) == [occupied |-> TRUE, key |-> k, text |-> text, val |-> v]

\* A slot taken for a key whose text could then not be copied.
Keyless == Entry(NoKey, <<>>, NoVal)

Blank(n)  == [p \in 0 .. n - 1 |-> Free]
CapOf(s)  == Cardinality(DOMAIN s)
Cap       == CapOf(slots)
Count(s)  == Cardinality({p \in DOMAIN s : s[p].occupied})

\* Fault: an even iterate is left even.
LeftEven(n) == n

\* *iterate |= 0x1
Odd(n) == IF n % 2 = 0 THEN n + 1 ELSE n

\* The slot of guess number i for key k in a table of n slots.
Guess(k, i, n) == (hash[k].offset + i * Odd(hash[k].iterate)) % n

\* The guesses at which the search for k in s can end; nkht_strcmp takes the
\* null pointer for any key.
Ends(s, k) ==
  LET n == CapOf(s)
  IN {i \in 0 .. n - 1 : LET e == s[Guess(k, i, n)] IN ~e.occupied \/ e.key \in {k, NoKey}}

Searchable(s, k) == Ends(s, k) # {}

\* The slot the search for k in s ends at.
Spot(s, k) == Guess(k, Min(Ends(s, k)), CapOf(s))

Holds(s, k) == Searchable(s, k) /\ s[Spot(s, k)].occupied

\* The search for k ends: at an occupied slot, which keeps its key, or a free
\* one.
Overwritten(s, k, v) == [s EXCEPT ![Spot(s, k)].val = v]
Put(s, k, text, v)   == [s EXCEPT ![Spot(s, k)] = Entry(k, text, v)]

\* Fault: the walk over the old table ends one slot early.
WalkShort(start, step, n) == [i \in 1 .. n - 1 |-> (start + i * step) % n]

\* The slots of the old table, in the order nkht_double walks them.
Walk(start, step, n) == [i \in 1 .. n |-> (start + i * step) % n]

Steps == {Odd(n) : n \in 0 .. Cap - 1}

\* The orders nkht_double may meet the slots in: the walk starts from the hash of
\* memory never written, which may be any.
Orders == {Walk(start, step, Cap) : start \in 0 .. Cap - 1, step \in Steps}

\* The key in slot p, if there is one, is set in the new table s.
Moved(s, p) ==
  IF slots[p].occupied THEN Put(s, slots[p].key, slots[p].text, slots[p].val) ELSE s

\* nkht_double: a blank table four times as large, filled from the old one.
Rehashed(order) ==
  LET f[i \in 0 .. Len(order)] == IF i = 0 THEN Blank(4 * Cap) ELSE Moved(f[i - 1], order[i])
  IN f[Len(order)]

Doubled == {Rehashed(order) : order \in Orders}

\* A slot without a key makes nkht_double give up.
Growable == \A p \in DOMAIN slots : slots[p].occupied => slots[p].key # NoKey

Crowded(n, cap) == n * 4 >= cap

-----------------------------------------------------------------------------
Reply(call, res, out) == [call |-> call, res |-> res, out |-> out]

Init ==
  /\ hash \in [Keys -> Hashes]
  /\ bytes \in [Keys -> KeyBytes]
  /\ Store!Init
  /\ slots = Blank(InitialCap)
  /\ len = 0
  /\ cursor = 0
  /\ reply = Reply(<<"none">>, "ok", <<>>)
  /\ starved = FALSE
  /\ steady = FALSE
  /\ yielded = <<>>

\* Fault: a new key is not counted.
LenAfterNew(n) == n

\* table->len of a table of n keys once a new one is set.
LenAfter(n) == n + 1

\* The table is s, with n keys, when the search for a place for k starts.
SetIn(s, n, k, v) ==
  \/ /\ ~Searchable(s, k)
     /\ slots' = s /\ len' = n
     /\ reply' = Reply(<<"set", k, v>>, "EXFULL", <<>>)
     /\ UNCHANGED <<storage, arenas>>
  \/ /\ Holds(s, k)
     /\ slots' = Overwritten(s, k, v) /\ len' = n
     /\ reply' = Reply(<<"set", k, v>>, "ok", <<>>)
     /\ UNCHANGED <<storage, arenas>>
  \/ /\ Searchable(s, k) /\ ~Holds(s, k)
     /\ Store!CopyKey(bytes[k])
     /\ slots' = Put(s, k, Store!Place(bytes[k]), v) /\ len' = LenAfter(n)
     /\ reply' = Reply(<<"set", k, v>>, "ok", <<>>)
  \/ /\ Searchable(s, k) /\ ~Holds(s, k)
     /\ Store!CopyFails(bytes[k])
     /\ slots' = [s EXCEPT ![Spot(s, k)] = Keyless] /\ len' = n
     /\ reply' = Reply(<<"set", k, v>>, "ENOTRECOVERABLE", <<>>)

\* Until nkht_destroy; an array of arenas in use is never empty.
Alive == storage.stored > 0

\* nkht_set: a crowded table is first doubled; that this can fail for want of
\* memory is ignored.
Set(k, v) ==
  /\ Alive
  /\ \/ ~Crowded(len, Cap) /\ SetIn(slots, len, k, v) /\ UNCHANGED starved
     \/ Crowded(len, Cap) /\ SetIn(slots, len, k, v) /\ starved' = TRUE
     \/ /\ Crowded(len, Cap) /\ Growable
        /\ \E s \in Doubled : SetIn(s, Count(s), k, v)
        /\ UNCHANGED starved
  /\ yielded' = <<>>
  /\ steady' = FALSE
  /\ UNCHANGED <<hash, bytes, cursor>>

\* nkht_get
Get(k) ==
  /\ Alive
  /\ reply' = IF Holds(slots, k)
              THEN Reply(<<"get", k>>, "ok", <<slots[Spot(slots, k)].val>>)
              ELSE Reply(<<"get", k>>, "ENODATA", <<>>)
  /\ UNCHANGED <<hash, bytes, table, cursor, starved, yielded, steady>>

\* nkht_iterate_start
IterateStart ==
  /\ Alive
  /\ cursor' = 0
  /\ reply' = Reply(<<"start">>, "ok", <<>>)
  /\ yielded' = <<>>
  /\ steady' = TRUE
  /\ UNCHANGED <<hash, bytes, table, starved>>

\* Fault: the search for the next key leaves out the last slot.
AheadShort == {p \in cursor .. Cap - 2 : slots[p].occupied}

\* The occupied slots the iteration has not reached.
Ahead == {p \in cursor .. Cap - 1 : slots[p].occupied}

\* nkht_iterate_next
IterateNext ==
  /\ Alive
  /\ IF Ahead = {}
     THEN /\ cursor' = Cap
          /\ reply' = Reply(<<"iterate">>, "ENODATA", <<>>)
          /\ UNCHANGED yielded
     ELSE LET p == Min(Ahead)
          IN /\ cursor' = p + 1
             /\ reply' = Reply(<<"iterate">>, "ok", <<slots[p].key, slots[p].val>>)
             /\ yielded' = IF steady THEN Append(yielded, slots[p].key) ELSE yielded
  /\ UNCHANGED <<hash, bytes, table, starved, steady>>

\* nkht_destroy
Destroy ==
  /\ Alive
  /\ Store!Release
  /\ slots' = Blank(0) /\ len' = 0 /\ cursor' = 0
  /\ reply' = Reply(<<"destroy">>, "ok", <<>>)
  /\ yielded' = <<>> /\ steady' = FALSE
  /\ UNCHANGED <<hash, bytes, starved>>

Next ==
  \/ \E k \in Keys : Get(k) \/ \E v \in Vals : Set(k, v)
  \/ IterateStart
  \/ IterateNext
  \/ Destroy

Spec == Init /\ [][Next]_vars

-----------------------------------------------------------------------------
(***************************************************************************)
(* Properties                                                              *)
(***************************************************************************)

Occupied == {p \in DOMAIN slots : slots[p].occupied}
Stored   == {slots[p].key : p \in Occupied}
Keyed    == {p \in Occupied : slots[p].key # NoKey}

\* Every variable has its type; no arena is filled into its frame's header.
TypeOK ==
  /\ hash \in [Keys -> Hashes] /\ bytes \in [Keys -> KeyBytes]
  /\ DOMAIN slots = 0 .. Cap - 1 /\ (Alive => Cap >= InitialCap)
  /\ \A p \in Occupied : slots[p].key \in Keys \cup {NoKey} /\ slots[p].val \in Vals \cup {NoVal}
  /\ len \in 0 .. Cap
  /\ \A i \in DOMAIN arenas : arenas[i].top \in 0 .. Store!Room(arenas[i].cap)
  /\ cursor \in 0 .. Cap
  /\ reply.res \in {"ok", "ENODATA", "EXFULL", "ENOTRECOVERABLE"}
  /\ starved \in BOOLEAN /\ steady \in BOOLEAN
  /\ yielded \in Seq(Keys \cup {NoKey})

\* A set is refused only when there is no room at all: a search does not miss
\* a free slot, whatever the offset and the iterate of the key.
RefusedOnlyWhenFull ==
  reply.res = "EXFULL" => \A p \in DOMAIN slots : slots[p].occupied

\* As long as the table could grow, at most a quarter of the slots, and the
\* one just taken, hold a key, so that no set is refused; and no key is missing
\* from the count, or counted twice.
StaysSparse ==
  /\ len = Cardinality(Keyed)
  /\ ~starved => 4 * len < Cap + 4 /\ reply.res # "EXFULL"

\* An iteration that ends, with no set since it started, has met every key of
\* the table, each once: no function or global is missing from the assembly
\* file or written to it twice.
IterationExact ==
  steady /\ reply = Reply(<<"iterate">>, "ENODATA", <<>>) =>
    /\ \A i, j \in DOMAIN yielded : yielded[i] = yielded[j] /\ yielded[i] # NoKey => i = j
    /\ Range(yielded) = Stored

\* The text a slot of the table points to stays that of its key: it is as long
\* as the key, in an arena that is alive and has given these bytes out, and
\* no other key has any of them; also after arenas were added, after the slots
\* moved to a larger table, and after a key could not be copied.
TextsStay ==
  \A p \in Keyed :
    LET t == slots[p].text
    IN /\ t.hi - t.lo = bytes[slots[p].key]
       /\ arenas[t.arena].live /\ t.hi <= arenas[t.arena].top
       /\ \A q \in Keyed \ {p} :
            LET u == slots[q].text IN t.arena = u.arena => t.hi <= u.lo \/ u.hi <= t.lo

\* The array names every arena once, in the order they were added; only a failed
\* copy leaves positions that name none, which no arena follows.  So destroying
\* the table frees every arena, also after a failure.
NothingLeaks ==
  /\ Alive =>
       /\ \A i \in 1 .. Len(arenas) : Store!Array!At(storage, i - 1) = i
       /\ \A i \in Len(arenas) + 1 .. storage.stored :
            Store!Array!At(storage, i - 1) = Store!NoArena
       /\ NoKey \notin Stored => storage.stored = Len(arenas)
  /\ ~Alive => \A i \in DOMAIN arenas : ~arenas[i].live

\* The value table slots hold for k, wherever it is.
Value(k) ==
  LET held == {p \in Occupied : slots[p].key = k}
  IN IF held = {} THEN NoVal ELSE slots[CHOOSE p \in held : TRUE].val

Abstract == INSTANCE Map WITH map <- [k \in Keys |-> Value(k)], spoilt <- NoKey \in Stored

\* The table is a map: through collisions, growing and failing to grow, a get
\* finds exactly what was last set, and what was set stays when a key could
\* not be copied, though another key may then be found that was never set.
IsMap == Abstract!Spec
=============================================================================
