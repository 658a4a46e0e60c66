------------------------------- MODULE Notes -------------------------------
(***************************************************************************)
(* market-notes (skills/market-notes, analysis/notes.py, notes_format.py): *)
(* a JSON file of dated notes per pair.  A command loads the file, changes *)
(* it in memory, writes <file>.tmp and renames it.  The name of the        *)
(* temporary file is fixed, so overlapping commands share it: a file is an *)
(* inode and a directory entry the inode it names.  A note's text is its   *)
(* id; an optional field is "absent", "null" or holds a value.             *)
(***************************************************************************)
EXTENDS Integers, Sequences, FiniteSets, SequencesExt

CONSTANTS
  Clerks,      \* processes that run market-notes
  Pairs,       \* the pairs notes are kept for
  Drafts,      \* the notes that may be added, as the command line gives them
  NoMeta,      \* an entry without a legacy meta
  Blank,       \* the content of a truncated file
  Garbled,     \* any other content that does not parse
  MaxTime      \* bound on the clock

VARIABLES
  now,         \* the clock, in days
  inodes,      \* the contents of the files, by inode
  tmp, live,   \* the inode of notes.json.tmp and of notes.json, 0 for none
  clerk,       \* what each process is writing
  listing,     \* what each process's last list printed
  removal,     \* what each process's last remove did
  errands,     \* how many commands may still be started
  version,     \* how often the file was replaced or written
  ideal,       \* the notes, had every completed command run on its own
  overlapped   \* did two writing commands ever overlap?

notesVars == <<now, inodes, tmp, live, clerk, listing, removal, errands, version, ideal, overlapped>>

-----------------------------------------------------------------------------
(* Entries *)

Never == 0
Unreadable == -1                    \* an expires that does not parse
IsActive(entry) == entry.expires \in {Never, Unreadable} \/ entry.expires > now

Missing == {"absent", "null"}

(* _LEGACY_TAG_MAP.  A tag is a word and whether it is spelled exactly so, *)
(* in lower case and without blanks: the map is looked up after trimming,  *)
(* the leftovers are filtered by the exact spelling.                       *)
Composite == "setup_invalidated"
LegacyTags == {"thesis", "setup", "open", "watchlist", "hedge", "starter", "invalidated", "post_mortem"}
FieldOf(word) == IF word \in {"thesis", "setup"} THEN "type" ELSE "status"

(* The timeframe a tag marks: a bare timeframe or one with a suffix.       *)
Frames == <<"1d", "4h">>
FrameOf(tag) ==
  CASE tag.exact /\ tag.word \in {"1d", "1d_only", "1d_pullback"} -> "1d"
    [] tag.exact /\ tag.word \in {"4h", "4h_only", "4h_pullback"} -> "4h"
    [] OTHER -> "none"
Consumed(tag) ==
  tag.exact /\ tag.word \in LegacyTags \cup {Composite, "1d", "1d_only", "4h", "4h_only"}

(* One tag of meta.tags sets a field without a value; the composite tag    *)
(* only a field that is not there at all.                                  *)
Tagged(tag, e) ==
  IF tag.word = Composite
  THEN [e EXCEPT !.status = IF @ = "absent" THEN "invalidated" ELSE @,
                 !.type = IF @ = "absent" THEN "setup" ELSE @]
  ELSE IF tag.word \in LegacyTags /\ e[FieldOf(tag.word)] \in Missing
  THEN [e EXCEPT ![FieldOf(tag.word)] = tag.word] ELSE e

MigrateEntry(e) ==
  LET tags == e.meta.tags
      typed == IF {e.status, e.type} \cap Missing = {} THEN e ELSE FoldLeft(LAMBDA x, t : Tagged(t, x), e, tags)
      marked == SelectSeq(Frames, LAMBDA f : \E t \in ToSet(tags) : FrameOf(t) = f)
      kept == SelectSeq(tags, LAMBDA t : ~Consumed(t) /\ t.word \notin e.tags)
  IN IF e.meta = NoMeta THEN e
     ELSE [typed EXCEPT !.frame = IF @ = "null" /\ marked # <<>> THEN Head(marked) ELSE @,
                        !.refs = IF @ = "null" THEN e.meta.refs ELSE @,
                        !.tags = @ \cup {t.word : t \in ToSet(kept)},
                        !.meta = NoMeta]

(* validate_entry_findings: the errors of the migrated entry, and of a     *)
(* meta still there.                                                       *)
Errors(e) ==
  LET c == MigrateEntry(e)
  IN {f \in {"refs"} : c.refs = "bad"} \cup {f \in {"meta"} : e.meta # NoMeta}

(* make_entry: what the legacy meta translates to, under the typed         *)
(* arguments; no field is left out and no meta is stored.                  *)
MakeEntry(draft) ==
  LET legacy == MigrateEntry([draft EXCEPT !.status = "absent", !.type = "absent", !.frame = "null",
                                           !.refs = "null", !.tags = {}])
      Given(field) == IF draft[field] \in Missing THEN legacy[field] ELSE draft[field]
      Null(value) == IF value = "absent" THEN "null" ELSE value
  IN [draft EXCEPT !.status = Null(Given("status")), !.type = Null(Given("type")),
                   !.frame = Given("frame"), !.refs = Given("refs"),
                   !.tags = IF @ = {} THEN legacy.tags ELSE @, !.meta = NoMeta]

-----------------------------------------------------------------------------
(* Books: the notes of every pair; a pair without notes has no key.        *)

IsBook(book) == book = [pair \in Pairs |-> book[pair]]
EmptyBook == [pair \in Pairs |-> <<>>]
Added(book, pair, entry) == [book EXCEPT ![pair] = Append(@, entry)]
InRange(book, pair, index) == index \in 0 .. Len(book[pair]) - 1
Removed(book, pair, index) ==
  IF InRange(book, pair, index) THEN [book EXCEPT ![pair] = RemoveAt(@, index + 1)] ELSE book
FilterActive(notes) == SelectSeq(notes, IsActive)
Pruned(book) == [pair \in Pairs |-> FilterActive(book[pair])]
Translated(entry) == IF Errors(MigrateEntry(entry)) = {} THEN MigrateEntry(entry) ELSE entry
Migrated(book) == [pair \in Pairs |-> [i \in DOMAIN book[pair] |-> Translated(book[pair][i])]]

OnDisk == IF live = 0 THEN EmptyBook ELSE inodes[live]
Readable == OnDisk \notin {Blank, Garbled}

(* Mutant: the shown notes are counted instead. *)
Lines_Counted(book, all) ==
  [pair \in Pairs |->
     LET shown == IF all THEN book[pair] ELSE FilterActive(book[pair])
     IN {[index |-> i - 1, note |-> shown[i]] : i \in DOMAIN shown}]

(* What the text form of list prints: the position in the file of every    *)
(* note it shows, expired ones only with --all.                            *)
Lines(book, all) ==
  [pair \in Pairs |->
     {[index |-> i - 1, note |-> book[pair][i]] : i \in {j \in 1..Len(book[pair]) : all \/ IsActive(book[pair][j])}}]

-----------------------------------------------------------------------------
(* Commands *)

Idle == [stage |-> "idle", inode |-> 0, book |-> EmptyBook, exact |-> EmptyBook]
NoListing == [at |-> -1, lines |-> [pair \in Pairs |-> {}]]
NoRemoval == [wanted |-> NoMeta, took |-> NoMeta]

Starts(p) == errands > 0 /\ clerk[p] = Idle /\ errands' = errands - 1

(* save_raw is under way: `exact` is what the command makes of the notes   *)
(* had all commands run on their own.                                      *)
Saving(p, book, exact) ==
  /\ clerk' = [clerk EXCEPT ![p] = [stage |-> "open", inode |-> 0, book |-> book, exact |-> exact]]
  /\ overlapped' = (overlapped \/ \E q \in Clerks : clerk[q] # Idle)
  /\ UNCHANGED <<now, inodes, tmp, live, version, ideal>>

ReadOnly == UNCHANGED <<now, inodes, tmp, live, clerk, version, ideal, overlapped>>

(* add: a blank text is a usage error, bad price levels are refused before *)
(* anything is written, and so is an add to a file that does not parse.    *)
Add(p) ==
  /\ Starts(p)
  /\ \E pair \in Pairs, draft \in Drafts :
       IF draft.blank \/ draft.refs = "bad" \/ ~Readable THEN ReadOnly
       ELSE Saving(p, Added(OnDisk, pair, MakeEntry(draft)), Added(ideal, pair, MakeEntry(draft)))
  /\ UNCHANGED <<listing, removal>>

(* remove PAIR INDEX, by an index the process read off its last list.      *)
RemoveNote(p) ==
  /\ Starts(p)
  /\ \E pair \in Pairs : \E line \in listing[p].lines[pair] :
       IF ~Readable THEN ReadOnly /\ UNCHANGED removal
       ELSE IF ~InRange(OnDisk, pair, line.index) THEN ReadOnly /\ UNCHANGED removal
       ELSE /\ Saving(p, Removed(OnDisk, pair, line.index), Removed(ideal, pair, line.index))
            /\ removal' = [removal EXCEPT ![p] = IF version = listing[p].at
                                                 THEN [wanted |-> line.note, took |-> OnDisk[pair][line.index + 1]]
                                                 ELSE NoRemoval]
  /\ UNCHANGED listing

Prune(p) ==
  /\ Starts(p)
  /\ IF Readable THEN Saving(p, Pruned(OnDisk), Pruned(ideal)) ELSE ReadOnly
  /\ UNCHANGED <<listing, removal>>

(* migrate: an entry that would still be invalid is left as it is.         *)
Migrate(p) ==
  /\ Starts(p)
  /\ \E dryRun \in BOOLEAN :
       IF Readable /\ ~dryRun THEN Saving(p, Migrated(OnDisk), Migrated(ideal)) ELSE ReadOnly
  /\ UNCHANGED <<listing, removal>>

List(p) ==
  /\ Starts(p) /\ Readable
  /\ \E all \in BOOLEAN : listing' = [listing EXCEPT ![p] = [at |-> version, lines |-> Lines(OnDisk, all)]]
  /\ ReadOnly /\ UNCHANGED removal

(* Mutant: the live file is opened for writing. *)
OpenTmp_InPlace(p) ==
  /\ clerk[p].stage = "open"
  /\ inodes' = IF live = 0 THEN Append(inodes, Blank) ELSE [inodes EXCEPT ![live] = Blank]
  /\ live' = IF live = 0 THEN Len(inodes) + 1 ELSE live
  /\ tmp' = live'
  /\ clerk' = [clerk EXCEPT ![p].stage = "write", ![p].inode = live']
  /\ UNCHANGED <<now, version, listing, removal, errands, ideal, overlapped>>

(* save_raw: open truncates a temporary file that is there, whoever is     *)
(* writing to it; a write over another one leaves either or a mixture;     *)
(* rename takes whatever the temporary name stands for.                    *)
OpenTmp(p) ==
  LET inode == IF tmp = 0 THEN Len(inodes) + 1 ELSE tmp
  IN /\ clerk[p].stage = "open"
     /\ inodes' = IF tmp = 0 THEN Append(inodes, Blank) ELSE [inodes EXCEPT ![tmp] = Blank]
     /\ tmp' = inode
     /\ clerk' = [clerk EXCEPT ![p].stage = "write", ![p].inode = inode]
     /\ version' = version + (IF inode = live THEN 1 ELSE 0)
     /\ UNCHANGED <<now, live, listing, removal, errands, ideal, overlapped>>

WriteTmp(p) ==
  LET inode == clerk[p].inode
  IN /\ clerk[p].stage = "write"
     /\ \E content \in {clerk[p].book} \cup (IF inodes[inode] = Blank THEN {} ELSE {Garbled}) :
          inodes' = [inodes EXCEPT ![inode] = content]
     /\ clerk' = [clerk EXCEPT ![p].stage = "rename"]
     /\ version' = version + (IF inode = live THEN 1 ELSE 0)
     /\ UNCHANGED <<now, tmp, live, listing, removal, errands, ideal, overlapped>>

RenameTmp(p) ==
  /\ clerk[p].stage = "rename"
  /\ IF tmp = 0 THEN UNCHANGED <<tmp, live, version, ideal>>
     ELSE live' = tmp /\ tmp' = 0 /\ version' = version + 1 /\ ideal' = clerk[p].exact
  /\ clerk' = [clerk EXCEPT ![p] = Idle]
  /\ UNCHANGED <<now, inodes, listing, removal, errands, overlapped>>

KillClerk(p) ==
  /\ clerk[p] # Idle
  /\ clerk' = [clerk EXCEPT ![p] = Idle]
  /\ UNCHANGED <<now, inodes, tmp, live, listing, removal, errands, version, ideal, overlapped>>

PassDay ==
  /\ now < MaxTime
  /\ now' = now + 1
  /\ UNCHANGED <<inodes, tmp, live, clerk, listing, removal, errands, version, ideal, overlapped>>

NotesInit(book, quota) ==
  /\ now = 1
  /\ inodes = IF book = EmptyBook THEN <<>> ELSE <<book>>
  /\ tmp = 0 /\ live = (IF book = EmptyBook THEN 0 ELSE 1)
  /\ clerk = [p \in Clerks |-> Idle]
  /\ listing = [p \in Clerks |-> NoListing]
  /\ removal = [p \in Clerks |-> NoRemoval]
  /\ errands = quota
  /\ version = 0 /\ ideal = book /\ overlapped = FALSE

NotesNext ==
  \/ \E p \in Clerks : \/ Add(p) \/ RemoveNote(p) \/ Prune(p) \/ Migrate(p) \/ List(p)
                       \/ OpenTmp(p) \/ WriteTmp(p) \/ RenameTmp(p) \/ KillClerk(p)
  \/ PassDay

-----------------------------------------------------------------------------
(* Properties *)

(* The index that list shows beside a note removes that note, expired      *)
(* notes hidden or not and however late the remove is, as long as the file *)
(* has not changed in between (run.py:198-205, notes.py:127-137).          *)
ListedNoteIsRemoved == \A p \in Clerks : removal[p].took = removal[p].wanted
============================================================================
