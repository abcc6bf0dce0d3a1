------------------------------ MODULE ReadFile ------------------------------
(***************************************************************************)
(* One call of the read_file tool (src/investigation/read_file.rs) on a    *)
(* repository that others may be writing to.                               *)
(*                                                                         *)
(* A file is a sequence of bytes.  Of a byte, the code tells apart whether *)
(* it stands for a character by itself, or starts or continues one of two: *)
(* a text may not be cut between the two.  Each await of the call is a     *)
(* step, and the file may change before it.                                *)
(***************************************************************************)
EXTENDS Integers, Sequences, SequencesExt, FiniteSetsExt

CONSTANTS
  Cap,        \* investigation.max_file_bytes
  Contents,   \* what files may hold
  MaxEvents   \* bound: changes of the file, and failures of the disk

Bytes == {"ascii", "lead", "cont"}

ASSUME CapAssumption == Cap \in Nat \ {0}
ASSUME ContentsAssumption == Contents \subseteq Seq(Bytes)
ASSUME EventsAssumption == MaxEvents \in Nat

\* What Args.path may be, and what a relative one may lead to.
Paths == {"absolute", "parent", "relative"}
Entries == {"missing", "unresolvable", "outside", "directory", "unreadable",
            "file"}

VARIABLES
  path,      \* Args.path
  entry,     \* what it leads to
  content,   \* what that file holds; once opened, the file that was opened
  at,        \* where the call is
  looked,    \* what the file held when its metadata was read
  bytes,     \* what was read so far
  answer,    \* what the call returned
  \* History, for the properties; no action of the call reads it.
  events,    \* changes and failures during the call
  rewritten  \* since the look, the file changed but by growing at its end

vars == <<path, entry, content, at, looked, bytes, answer, events, rewritten>>
world == <<path, entry, content, events, rewritten>>

Failures == {"PermissionDenied", "NotFound", "InvalidArgs", "Other"}
NoFailure == "none"
Unanswered == [failure |-> NoFailure, kept |-> <<>>, total |-> 0,
               truncated |-> FALSE]

Init ==
  /\ path \in Paths
  /\ entry \in Entries
  /\ content \in Contents
  /\ entry # "file" => content = <<>>
  /\ at = "resolve"
  /\ looked = <<>>
  /\ bytes = <<>>
  /\ answer = Unanswered
  /\ events = 0
  /\ rewritten = FALSE

-----------------------------------------------------------------------------
(***************************************************************************)
(* Text.                                                                   *)
(***************************************************************************)

\* Whole characters only: every lead is continued, every continuation led.
IsText(b) ==
  \A n \in DOMAIN b :
    /\ b[n] = "lead" => n < Len(b) /\ b[n + 1] = "cont"
    /\ b[n] = "cont" => n > 1 /\ b[n - 1] = "lead"

\* Utf8Error::valid_up_to: the length of the longest prefix that is text.
ValidUpTo(b) == Max({n \in 0..Len(b) : IsText(SubSeq(b, 1, n))})

\* Utf8Error::error_len is None: only the end of a character is wanting.
EndsInsideChar(b) == ValidUpTo(b) = Len(b) - 1 /\ Last(b) = "lead"

\* Fault: the text is cut at the byte.
CutAnywhere(text, max) == SubSeq(text, 1, Min({max, Len(text)}))

\* truncate_utf8
TruncateUtf8(text, max) ==
  LET boundaries == {n \in 0..Len(text) : n = Len(text) \/ text[n + 1] # "cont"}
  IN SubSeq(text, 1, Max({n \in boundaries : n <= max}))

-----------------------------------------------------------------------------
(***************************************************************************)
(* The call.                                                               *)
(***************************************************************************)

\* The failure map_error makes of a ReadFileError.
MapError ==
  [Absolute     |-> "PermissionDenied",
   Escapes      |-> "PermissionDenied",
   NotFound     |-> "NotFound",
   IsADirectory |-> "InvalidArgs",
   NotText      |-> "InvalidArgs",
   Unreadable   |-> "Other"]

Fail(error) ==
  /\ at' = "answered"
  /\ answer' = [Unanswered EXCEPT !.failure = MapError[error]]

Goto(place) == at' = place /\ UNCHANGED answer

Resolve ==
  /\ at = "resolve"
  /\ \/ path = "absolute" /\ Fail("Absolute")
     \/ path = "parent" /\ Fail("Escapes")
     \/ /\ path = "relative"
        /\ \/ entry = "missing" /\ Fail("NotFound")
           \/ entry = "unresolvable" /\ Fail("Unreadable")
           \/ entry = "outside" /\ Fail("Escapes")
           \/ entry \in {"directory", "unreadable", "file"} /\ Goto("open")
  /\ UNCHANGED <<world, looked, bytes>>

\* A file that is gone by now is not reported as missing.
Open ==
  /\ at = "open"
  /\ IF entry \in {"missing", "unreadable"} THEN Fail("Unreadable")
                                            ELSE Goto("look")
  /\ UNCHANGED <<world, looked, bytes>>

\* metadata() of the open file
Look ==
  /\ at = "look"
  /\ IF entry = "directory" THEN Fail("IsADirectory") ELSE Goto("read")
  /\ looked' = content
  /\ UNCHANGED <<world, bytes>>

\* take(limit) lets one byte more through than is kept.
Limit == Cap + 1

\* Fault: the file is read to its end.
ReadUnlimited ==
  /\ at = "read"
  /\ \E n \in Len(bytes) + 1 .. Len(content) :
       bytes' = bytes \o SubSeq(content, Len(bytes) + 1, n)
  /\ UNCHANGED <<world, at, looked, answer>>

\* One read of read_to_end: some of what there is beyond what was read.
ReadSome ==
  /\ at = "read"
  /\ \E n \in Len(bytes) + 1 .. Min({Limit, Len(content)}) :
       bytes' = bytes \o SubSeq(content, Len(bytes) + 1, n)
  /\ UNCHANGED <<world, at, looked, answer>>

\* Fault: an incomplete character is cut off wherever the bytes end.
DecodeLenient(b, total) ==
  IF EndsInsideChar(b) THEN SubSeq(b, 1, ValidUpTo(b)) ELSE b

\* The bytes as text; unless the file went on after them, a character may
\* not want its end.
Decode(b, total) ==
  IF EndsInsideChar(b) /\ total > Len(b) THEN SubSeq(b, 1, ValidUpTo(b)) ELSE b

\* Fault: truncated is said of what was decoded, not of the file.
PresentDecoded(text, total) ==
  LET kept == TruncateUtf8(text, Cap)
  IN [failure |-> NoFailure, kept |-> kept, total |-> total,
      truncated |-> kept # text]

\* The text kept and, unless it has every byte the metadata spoke of, the
\* notice that names both lengths.
Present(text, total) ==
  LET kept == TruncateUtf8(text, Cap)
  IN [failure |-> NoFailure, kept |-> kept, total |-> total,
      truncated |-> Len(kept) # total]

\* The end of the file, or of what may be read, and the answer.
Answer ==
  /\ at = "read"
  /\ Len(bytes) >= Min({Limit, Len(content)})
  /\ LET text == Decode(bytes, Len(looked))
     IN IF IsText(text)
        THEN /\ at' = "answered"
             /\ answer' = Present(text, Len(looked))
        ELSE Fail("NotText")
  /\ UNCHANGED <<world, looked, bytes>>

-----------------------------------------------------------------------------
(***************************************************************************)
(* What others, and the disk, may do meanwhile.                            *)
(***************************************************************************)

\* Until the file is opened, the path may come to lead elsewhere inside the
\* repository.
Replace ==
  /\ at \in {"resolve", "open"}
  /\ events < MaxEvents
  /\ entry' \in {"missing", "directory", "unreadable", "file"}
  /\ content' \in Contents
  /\ entry' # "file" => content' = <<>>
  /\ events' = events + 1
  /\ UNCHANGED <<path, at, looked, bytes, answer, rewritten>>

\* Somebody writes to the open file.
Write ==
  /\ at \in {"look", "read"} /\ entry = "file"
  /\ events < MaxEvents
  /\ content' \in Contents \ {content}
  /\ events' = events + 1
  /\ rewritten' = (rewritten \/ (at = "read" /\ ~IsPrefix(content, content')))
  /\ UNCHANGED <<path, entry, at, looked, bytes, answer>>

\* open(), metadata() or a read fails.
DiskFails ==
  /\ at \in {"open", "look", "read"}
  /\ events < MaxEvents
  /\ Fail("Unreadable")
  /\ events' = events + 1
  /\ UNCHANGED <<path, entry, content, looked, bytes, rewritten>>

Call == Resolve \/ Open \/ Look \/ ReadSome \/ Answer

Answered == at = "answered" /\ UNCHANGED vars

Next == Call \/ Replace \/ Write \/ DiskFails \/ Answered

Spec == Init /\ [][Next]_vars

-----------------------------------------------------------------------------
(***************************************************************************)
(* Properties.                                                             *)
(***************************************************************************)

TypeOK ==
  /\ path \in Paths /\ entry \in Entries
  /\ content \in Contents /\ looked \in Contents \cup {<<>>}
  /\ at \in {"resolve", "open", "look", "read", "answered"}
  /\ bytes \in Seq(Bytes) /\ Len(bytes) <= Limit
  /\ answer.failure \in Failures \cup {NoFailure}
  /\ answer.kept \in Seq(Bytes) /\ answer.total \in Nat
  /\ answer.truncated \in BOOLEAN
  /\ events \in 0..MaxEvents /\ rewritten \in BOOLEAN

GotText == at = "answered" /\ answer.failure = NoFailure

\* What the tool promises of a repository that stands still, from the file
\* alone: its longest text within the cap, and the truth about the rest.
Promised ==
  LET seen == SubSeq(content, 1, Min({Cap + 1, Len(content)}))
      readable == IsText(seen) \/ (Len(content) > Len(seen)
                                   /\ IsText(Append(seen, "cont")))
      kept == SubSeq(content, 1,
                     Max({n \in 0..Min({Cap, Len(content)}) :
                            IsText(SubSeq(content, 1, n))}))
      Failing(kind) == [Unanswered EXCEPT !.failure = kind]
  IN IF path # "relative" \/ entry = "outside" THEN Failing("PermissionDenied")
     ELSE IF entry = "missing" THEN Failing("NotFound")
     ELSE IF entry \in {"unresolvable", "unreadable"} THEN Failing("Other")
     ELSE IF entry = "directory" \/ ~readable THEN Failing("InvalidArgs")
     ELSE [failure |-> NoFailure, kept |-> kept, total |-> Len(content),
           truncated |-> kept # content]

\* In a repository that stands still the answer is the one promised,
\* whatever chunks the file is read in and wherever the cap falls in a
\* character (read_file.rs:107).
StillFileReadRight == (at = "answered" /\ events = 0) => answer = Promised

\* Whatever is written to the file while it is read, the model is given
\* text, no longer than the cap (read_file.rs:148, text.rs:2).
AnswerFits == GotText => Len(answer.kept) <= Cap /\ IsText(answer.kept)

\* Without a notice the model has the file whole, as it was at the look, if
\* all that was done to it since is to append (read_file.rs:149).
NoNoticeMeansWhole ==
  (GotText /\ ~answer.truncated /\ ~rewritten) => answer.kept = looked

\* "The extra byte is what tells "exactly at the cap" apart from "longer
\* than it"" (read_file.rs:106): if it was read, the model is told.
ExtraByteTells == (GotText /\ Len(bytes) > Cap) => answer.truncated
=============================================================================
