------------------------------- MODULE Editor -------------------------------
(***************************************************************************)
(* The editor window of newbcpl-runtime/src/igui/bedit.rs: a text, a       *)
(* cursor with a selection, undo and redo, a find prompt, files and the    *)
(* diagnostics of the compile check.  Everything runs on the GUI thread,   *)
(* one message at a time; what is hard is the long sequences of keys.      *)
(*                                                                         *)
(* The text is that of RopeBuffer, as a sequence.  Characters stand for    *)
(* classes: "a" for those of words, "{" and "}" for the brackets, "q" for  *)
(* a quote.  Painting, scrolling and letter case are left out; the column  *)
(* remembered for vertical moves may be any.  The prompt opens and closes  *)
(* between any two keys without touching the text, so what it holds is a   *)
(* choice of the key that reaches it.                                      *)
(***************************************************************************)
EXTENDS TextLines

CONSTANTS
  Characters,
  Files,      (* texts that files hold, as they are when loaded            *)
  Typed,      (* characters the user types                                 *)
  Clips,      (* texts that other programs put on the clipboard            *)
  Patterns, Replacements,   (* what the user types into the prompt         *)
  UndoCap,
  MaxLength,  (* bound: length of the text                                 *)
  MaxEdits    (* bound: edits after a file is loaded                       *)

Return == "cr"
Space == " "

(* Loading leaves no returns in a text; what is typed, into the text or a  *)
(* prompt, is neither return nor newline, and there is nothing to find in  *)
(* an empty prompt.                                                        *)
ASSUME EditorAssumption ==
  /\ UndoCap \in Nat \ {0} /\ MaxLength \in Nat /\ MaxEdits \in Nat
  /\ {Newline, Space} \subseteq Characters \ {Return}
  /\ Files \subseteq Seq(Characters \ {Return})
  /\ Typed \subseteq Characters \ {Newline, Return}
  /\ Clips \subseteq Seq(Characters)
  /\ Patterns \subseteq Seq(Characters) \ {<<>>}
  /\ Replacements \subseteq Seq(Characters \ {Newline, Return})

VARIABLES
  ed,      (* the text and its editing state, a record                     *)
  saved,   (* what the file holds, while the text counts as unmodified     *)
  checked, (* the text the diagnostics are of, while they count as current *)
  edits,   (* edits since the last load                                    *)
  torn,    (* history: a write failed while the text counted as unmodified *)
  astray   (* history: the steps, since the last load, after which the     *)
           (* entries of the history no longer say what was done: a        *)
           (* deletion was redone ("redo"), hits were replaced by nothing  *)
           (* while there was something to redo ("replace"), or a return   *)
           (* with no newline behind it was pasted ("return")              *)

vars == <<ed, saved, checked, edits, torn, astray>>

Strayings == {"redo", "replace", "return"}

-----------------------------------------------------------------------------
(* Characters.                                                             *)
IsWord(text, offset) == offset < Len(text) /\ text[offset + 1] = "a"

(* splice_in turns a return and a newline into a newline, the rope turns   *)
(* the returns that are left into newlines.                                *)
BeforeNewline(text, i) == i < Len(text) /\ text[i + 1] = Newline

Unix(text) ==
  LET kept == {i \in DOMAIN text : ~(text[i] = Return /\ BeforeNewline(text, i))}
  IN [k \in 1 .. Cardinality(kept) |-> text[Nth(kept, k)]]

Decoded(text) ==
  [i \in DOMAIN text |-> IF text[i] = Return THEN Newline ELSE text[i]]

-----------------------------------------------------------------------------
(* The editing state.                                                      *)
Fresh(text) ==
  [text |-> text, cursor |-> <<0, 0>>, anchor |-> <<0, 0>>,
   undo |-> <<>>, redo |-> <<>>, coalesce |-> "none",
   dirty |-> FALSE, stale |-> TRUE]

Selecting(e) == e.cursor # e.anchor
SelStart(e) == IF Before(e.anchor, e.cursor) THEN e.anchor ELSE e.cursor
SelEnd(e) == IF Before(e.anchor, e.cursor) THEN e.cursor ELSE e.anchor

Between(e, from, to) ==
  Slice(e.text, OffsetOf(e.text, from), OffsetOf(e.text, to))

Selected(e) == Between(e, SelStart(e), SelEnd(e))

CursorAt(e, pos) == [e EXCEPT !.cursor = pos, !.anchor = pos]

(* set_cursor ends the run of typing.                                      *)
SetCursor(e, pos, extend) ==
  [e EXCEPT !.cursor = pos, !.anchor = IF extend THEN @ ELSE pos,
            !.coalesce = "none"]

(* splice_in and the position behind the new text, which is computed from  *)
(* its own line ends.                                                      *)
SpliceIn(e, pos, new) ==
  IF new = <<>> THEN e
  ELSE [e EXCEPT !.text = Spliced(@, OffsetOf(@, pos), Decoded(Unix(new))),
                 !.stale = TRUE]

(* Fault: the end of a text of several lines is looked for in the first.   *)
EndOfOneLine(pos, new) == <<pos[1], pos[2] + Len(new)>>

EndOf(pos, new) ==
  IF Newlines(new) = 0 THEN <<pos[1], pos[2] + Len(new)>>
  ELSE <<pos[1] + Newlines(new),
         Len(new) - Max({i \in DOMAIN new : new[i] = Newline})>>

(* Fault: the diagnostics of the text before count as current.             *)
SpliceOutQuietly(e, from, to) ==
  LET lo == OffsetOf(e.text, from)
      hi == OffsetOf(e.text, to)
  IN IF hi <= lo THEN e ELSE [e EXCEPT !.text = Without(@, lo, hi - lo)]

SpliceOut(e, from, to) ==
  LET lo == OffsetOf(e.text, from)
      hi == OffsetOf(e.text, to)
  IN IF from = to THEN e
     ELSE [e EXCEPT !.text = IF hi <= lo THEN @ ELSE Without(@, lo, hi - lo),
                    !.stale = TRUE]

(* UndoOp; was and now are the texts before and after, kept for the        *)
(* properties only.                                                        *)
Op(kind, start, end, new, before, after, was, now) ==
  [kind |-> kind, start |-> start, end |-> end, text |-> new,
   before |-> before, after |-> after, was |-> was, now |-> now]

(* At the cap the oldest entry goes.                                       *)
PushUndo(e, op) ==
  [e EXCEPT !.undo = IF Len(@) >= UndoCap THEN Append(Tail(@), op)
                                          ELSE Append(@, op)]

(* delete_selection_to_undo leaves the redo stack to its callers.          *)
DeleteSelection(e) ==
  LET start == SelStart(e)
      cut   == [CursorAt(SpliceOut(e, start, SelEnd(e)), start)
                  EXCEPT !.dirty = TRUE, !.coalesce = "none"]
  IN IF ~Selecting(e) THEN e
     ELSE PushUndo(cut, Op("deleted", start, start, Selected(e), e.cursor,
                           start, e.text, cut.text))

(* do_insert: typing extends the last entry while it goes on.              *)
DoInsert(e, new, kind) ==
  LET d     == DeleteSelection(e)
      start == d.cursor
      end   == EndOf(start, Unix(new))
      i     == [CursorAt(SpliceIn(d, start, new), end)
                  EXCEPT !.dirty = TRUE, !.redo = <<>>, !.coalesce = kind]
      last  == Last(d.undo)
      grow  == /\ kind = "insert" /\ d.coalesce = "insert" /\ d.undo # <<>>
               /\ last.kind = "inserted" /\ last.end = start
  IN IF grow
     THEN [i EXCEPT !.undo[Len(d.undo)] =
             Op("inserted", last.start, end, last.text \o new, last.before,
                end, last.was, i.text)]
     ELSE PushUndo(i, Op("inserted", start, end, new, start, end, d.text,
                         i.text))

InsertStr(e, new) == IF new = <<>> THEN e ELSE DoInsert(e, new, "none")

(* backspace and delete_forward cut from one position to the next.         *)
Cut(e, from, to, kind) ==
  LET c    == [CursorAt(SpliceOut(e, from, to), from)
                 EXCEPT !.dirty = TRUE, !.redo = <<>>, !.coalesce = kind]
      gone == Between(e, from, to)
      last == Last(e.undo)
      grow == /\ kind = "backspace" /\ e.coalesce = "backspace"
              /\ e.undo # <<>> /\ last.kind = "deleted" /\ last.start = to
  IN IF grow
     THEN [c EXCEPT !.undo[Len(e.undo)] =
             Op("deleted", from, from, gone \o last.text, last.before, from,
                last.was, c.text)]
     ELSE PushUndo(c, Op("deleted", from, from, gone, e.cursor, from, e.text,
                         c.text))

(* The positions one character to the left and to the right.               *)
LeftOf(e) == PosOf(e.text, Max({OffsetOf(e.text, e.cursor) - 1, 0}))
RightOf(e) == PosOf(e.text, OffsetOf(e.text, e.cursor) + 1)

CutSelection(e) == [DeleteSelection(e) EXCEPT !.redo = <<>>]

Backspace(e) ==
  IF Selecting(e) THEN CutSelection(e)
  ELSE IF e.cursor = <<0, 0>> THEN e
  ELSE Cut(e, LeftOf(e), e.cursor, "backspace")

DeleteForward(e) ==
  IF Selecting(e) THEN CutSelection(e)
  ELSE IF RightOf(e) = e.cursor THEN e
  ELSE Cut(e, e.cursor, RightOf(e), "none")

(* Fault: what was deleted comes back behind where it was.                 *)
UndoneAtCursor(e) ==
  LET op == Last(e.undo)
      u  == IF op.kind = "inserted" THEN SpliceOut(e, op.start, op.end)
                                    ELSE SpliceIn(e, e.cursor, op.text)
  IN [CursorAt(u, op.before)
        EXCEPT !.dirty = TRUE, !.coalesce = "none",
               !.undo = Front(@), !.redo = Append(@, op)]

(* undo: the mirror of what was done, and the entry moves to redo.         *)
Undone(e) ==
  LET op == Last(e.undo)
      u  == IF op.kind = "inserted" THEN SpliceOut(e, op.start, op.end)
                                    ELSE SpliceIn(e, op.start, op.text)
  IN [CursorAt(u, op.before)
        EXCEPT !.dirty = TRUE, !.coalesce = "none",
               !.undo = Front(@), !.redo = Append(@, op)]

(* redo: both kinds of entry are spliced in.                               *)
Redone(e) ==
  LET op == Last(e.redo)
  IN [CursorAt(SpliceIn(e, op.start, op.text), op.after)
        EXCEPT !.dirty = TRUE, !.coalesce = "none",
               !.redo = Front(@), !.undo = Append(@, op)]

-----------------------------------------------------------------------------
(* Auto-indentation, words and brackets.                                   *)

(* How deep in open brackets the row is at its end; quoted ones do not     *)
(* count.                                                                  *)
Depth(row) ==
  LET quotes(i) == Cardinality({k \in 1 .. i : row[k] = "q"})
      bare(c) == {i \in DOMAIN row : row[i] = c /\ quotes(i) % 2 = 0}
  IN Cardinality(bare("{")) - Cardinality(bare("}"))

AutoIndent(e) ==
  LET row  == Line(e.text, e.cursor[1])
      body == {i \in DOMAIN row : row[i] # Space}
      lead == IF body = {} THEN row ELSE SubSeq(row, 1, Min(body) - 1)
  IN IF Depth(Slice(row, 0, e.cursor[2])) > 0 THEN lead \o <<Space, Space>>
                                              ELSE lead

InsertNewline(e) == DoInsert(e, <<Newline>> \o AutoIndent(e), "none")

(* Soft tab, with stops every two columns.                                 *)
SoftTab(e) ==
  InsertStr(e, [i \in 1 .. 2 - (e.cursor[2] % 2) |-> Space])

(* Ctrl+Left: back over what is no word, then over the word.               *)
WordLeft(e) ==
  LET at == OffsetOf(e.text, e.cursor)
      begins == {p \in 0 .. at - 1 :
                   IsWord(e.text, p) /\ (p = 0 \/ ~IsWord(e.text, p - 1))}
  IN PosOf(e.text, IF begins = {} THEN 0 ELSE Max(begins))

(* Ctrl+Right: over the word, then over what is none.                      *)
WordRight(e) ==
  LET at  == OffsetOf(e.text, e.cursor)
      gap == Min({p \in at .. Len(e.text) : ~IsWord(e.text, p)})
  IN PosOf(e.text,
       Min({p \in gap .. Len(e.text) : IsWord(e.text, p)} \cup {Len(e.text)}))

-----------------------------------------------------------------------------
(* Find and replace.                                                       *)
Hits(text, pattern) ==
  {p \in 0 .. Len(text) - Len(pattern) :
     Slice(text, p, p + Len(pattern)) = pattern}

(* apply_match selects the hit.                                            *)
Match(e, hit, pattern) ==
  [e EXCEPT !.anchor = PosOf(e.text, hit),
            !.cursor = PosOf(e.text, hit + Len(pattern))]

(* find_next begins one behind the cursor and wraps.                       *)
FindNext(e, pattern) ==
  LET all  == Hits(e.text, pattern)
      from == Min({OffsetOf(e.text, e.cursor) + 1, Len(e.text)})
      next == {h \in all : h >= from}
  IN IF all = {} THEN e
     ELSE Match(e, Min(IF next # {} THEN next ELSE all), pattern)

FindPrev(e, pattern) ==
  LET all  == Hits(e.text, pattern)
      prev == {h \in all : h + Len(pattern) <= OffsetOf(e.text, e.cursor)}
  IN IF all = {} THEN e
     ELSE Match(e, Max(IF prev # {} THEN prev ELSE all), pattern)

ReplaceSelection(e, new) == InsertStr(DeleteSelection(e), new)

ReplaceCurrent(e, pattern, new) ==
  FindNext(IF Selecting(e) /\ Selected(e) = pattern
           THEN ReplaceSelection(e, new) ELSE e, pattern)

(* A round of replace_all: the next hit, from where the last one ended.    *)
ReplaceNext(r, pattern, new) ==
  LET next == {h \in Hits(r.ed.text, pattern) : h >= r.from}
      d    == ReplaceSelection(Match(r.ed, Min(next), pattern), new)
  IN IF next = {} THEN r ELSE [ed |-> d, from |-> OffsetOf(d.text, d.cursor)]

(* Every round but the last uses up a character of the text.               *)
Rounds(e, pattern, new) ==
  LET round[n \in 0 .. Len(e.text)] ==
        IF n = 0 THEN [ed |-> e, from |-> 0]
                 ELSE ReplaceNext(round[n - 1], pattern, new)
  IN round

ReplaceEach(e, pattern, new) == Rounds(e, pattern, new)[Len(e.text)].ed

-----------------------------------------------------------------------------
(* Messages.                                                               *)
Init ==
  /\ \E file \in Files : ed = Fresh(file) /\ saved = file
  /\ checked = <<>> /\ edits = 0 /\ torn = FALSE /\ astray = {}

(* A message changes the editing state, within the bounds, and leads       *)
(* astray as noted.                                                        *)
Strays(next, noted) ==
  \E e \in {next} :
    /\ Len(e.text) <= MaxLength
    /\ ed' = e
    /\ saved' = IF e.dirty THEN <<>> ELSE saved
    /\ checked' = IF e.stale THEN <<>> ELSE checked
    /\ edits' = IF e.redo = <<>> /\ e.undo # ed.undo THEN edits + 1 ELSE edits
    /\ edits' <= MaxEdits
    /\ torn' = (torn /\ ~e.dirty)
    /\ astray' = astray \cup noted

Becomes(next) == Strays(next, {})

Noted(straying, holds) == IF holds THEN {straying} ELSE {}

(* The bound again, where it spares work.                                  *)
MayEdit == edits < MaxEdits

TypeChar == MayEdit /\ \E c \in Typed : Becomes(DoInsert(ed, <<c>>, "insert"))

(* The characters of these keys reach the text with a prompt open, too.    *)
TabKey == MayEdit /\ Becomes(SoftTab(ed))
BackspaceKey == MayEdit /\ Becomes(Backspace(ed))
DeleteKey == MayEdit /\ Becomes(DeleteForward(ed))

Paste ==
  /\ MayEdit
  /\ \E text \in ({Unix(clip) : clip \in Clips} \cup {Selected(ed)}) \ {<<>>} :
       Strays(DoInsert(ed, text, "none"),
              Noted("return", Return \in ToSet(text)))

CutKey == MayEdit /\ Selecting(ed) /\ Becomes(CutSelection(ed))

UndoKey == ed.undo # <<>> /\ Becomes(Undone(ed))

RedoKey ==
  /\ ed.redo # <<>>
  /\ Strays(Redone(ed), Noted("redo", Last(ed.redo).kind = "deleted"))

(* Left, Right and, with Ctrl, by words.  Without Shift, Left and Right    *)
(* collapse a selection to its start or end.                               *)
Hops(e) == {LeftOf(e), RightOf(e), WordLeft(e), WordRight(e)}

ArrowKeys ==
  \/ \E pos \in Hops(ed) : Becomes(SetCursor(ed, pos, TRUE))
  \/ \E pos \in IF Selecting(ed) THEN {SelStart(ed), SelEnd(ed)} ELSE Hops(ed) :
       Becomes(SetCursor(ed, pos, FALSE))

(* Up, Down, PgUp, PgDn, Home, End, a click, a drag, the line of the goto  *)
(* prompt or of a diagnostic: they clamp to the text.                      *)
PointAt ==
  \E pos \in Positions(ed.text), extend \in BOOLEAN :
    Becomes(SetCursor(ed, pos, extend))

SelectAll ==
  Becomes([ed EXCEPT !.anchor = <<0, 0>>, !.coalesce = "none",
                     !.cursor = PosOf(ed.text, Len(ed.text))])

(* F3.                                                                     *)
Found(e) == UNION {{FindNext(e, p), FindPrev(e, p)} : p \in Patterns}

FindKey == \E e \in Found(ed) : Becomes(e)

(* Enter, without a prompt or in one.  The prompt acts on the key, and the *)
(* character of the same key still reaches the text.                       *)
Replacing(e) ==
  {ReplaceCurrent(e, pattern, new) : pattern \in Patterns, new \in Replacements}

Lines(e) ==
  {SetCursor(e, <<row, 0>>, FALSE) : row \in 0 .. LineCount(e.text) - 1}

EnterKey ==
  /\ MayEdit
  /\ \E e \in {ed} \cup Found(ed) \cup Replacing(ed) \cup Lines(ed) :
       Becomes(InsertNewline(e))

(* Ctrl+Enter: its character is a line feed, which is ignored.  Replacing  *)
(* by nothing leaves the redo stack as it was.                             *)
ReplaceAllKey ==
  /\ MayEdit
  /\ \E pattern \in Patterns, new \in Replacements :
       Strays(ReplaceEach(ed, pattern, new),
              Noted("replace", /\ new = <<>> /\ ed.redo # <<>>
                               /\ Hits(ed.text, pattern) # {}))

(* F7.                                                                     *)
CheckKey ==
  /\ ed' = [ed EXCEPT !.stale = FALSE]
  /\ checked' = ed.text
  /\ UNCHANGED <<saved, edits, torn, astray>>

(* Fault: a file that could not be written counts as saved.                *)
SaveRegardless ==
  \E written \in BOOLEAN :
    /\ saved' = IF written THEN ed.text ELSE saved
    /\ torn' = (~written /\ ~ed.dirty)
    /\ ed' = [ed EXCEPT !.dirty = FALSE, !.stale = FALSE]
    /\ checked' = ed.text
    /\ UNCHANGED <<edits, astray>>

(* What a failed write leaves of a file that held the text saved: the file *)
(* cannot be opened, or is emptied and gets some of the text.              *)
Remains == {saved} \cup {SubSeq(ed.text, 1, n) : n \in 0 .. Len(ed.text)}

(* save_to, which checks what it saved; when the write fails the editor is *)
(* left as it is.                                                          *)
Save ==
  \/ /\ saved' = ed.text
     /\ ed' = [ed EXCEPT !.dirty = FALSE, !.stale = FALSE]
     /\ checked' = ed.text
     /\ torn' = FALSE
     /\ UNCHANGED <<edits, astray>>
  \/ /\ saved' \in IF ed.dirty THEN {<<>>} ELSE Remains
     /\ torn' = ~ed.dirty
     /\ UNCHANGED <<ed, checked, edits, astray>>

Load ==
  /\ \E file \in Files : ed' = Fresh(file) /\ saved' = file
  /\ checked' = <<>> /\ edits' = 0 /\ torn' = FALSE /\ astray' = {}

Next ==
  \/ TypeChar \/ TabKey \/ BackspaceKey \/ DeleteKey \/ Paste \/ CutKey
  \/ UndoKey \/ RedoKey \/ ArrowKeys \/ PointAt \/ SelectAll
  \/ FindKey \/ EnterKey \/ ReplaceAllKey \/ CheckKey \/ Save \/ Load

Spec == Init /\ [][Next]_vars

-----------------------------------------------------------------------------
(* Properties.                                                             *)

(* Cursor and anchor are positions of the text that is there, whatever     *)
(* mixture of edits, undos, finds and replacements led to it, until the    *)
(* history goes astray.                                                    *)
CursorInText == astray = {} => {ed.cursor, ed.anchor} \subseteq Positions(ed.text)

(* What an entry says was inserted ends where it says: the position that   *)
(* splice_in counts and the one the rope would give "would be equivalent". *)
EndsAgree ==
  \A i \in DOMAIN ed.undo :
    LET op == ed.undo[i]
        at == OffsetOf(op.was, op.start)
    IN op.kind = "inserted" => op.end = PosOf(op.now, at + Len(Unix(op.text)))

(* The entries of the two stacks chain up at the present text.             *)
EntriesChain ==
  LET u == ed.undo
      r == ed.redo
  IN /\ \A i \in DOMAIN u :
          u[i].now = IF i = Len(u) THEN ed.text ELSE u[i + 1].was
     /\ \A i \in DOMAIN r :
          r[i].was = IF i = Len(r) THEN ed.text ELSE r[i + 1].now

UndoGoesBack == ed.undo # <<>> => Undone(ed).text = Last(ed.undo).was

RedoReturns(kinds) ==
  ed.redo # <<>> /\ Last(ed.redo).kind \in kinds
    => Redone(ed).text = Last(ed.redo).now

(* Undoing goes back through the texts the user saw, entry by entry, and   *)
(* redoing an insertion comes forward again, until the history goes        *)
(* astray.                                                                 *)
HistoryExact ==
  astray = {} =>
    EndsAgree /\ EntriesChain /\ UndoGoesBack /\ RedoReturns({"inserted"})

(* A text that is not marked as modified is the text of its file, unless   *)
(* it was already unmarked when a write of it failed.                      *)
CleanMeansSaved == ed.dirty \/ torn \/ ed.text = saved

(* Diagnostics that are not greyed out are those of the text on the screen:*)
(* "the diagnostic shown is never out of date by accident".                *)
DiagnosticsCurrent == ed.stale \/ checked = ed.text

(* What the steps that lead astray, and a failed write, take away: redoing *)
(* a deletion returns to the text without it, the stacks chain up after    *)
(* replacing by nothing, what was pasted ends where its entry says, and an *)
(* unmarked text is the file's whatever failed.                            *)
RedoExact        == RedoReturns({"inserted", "deleted"})
HarmlessReplace  == astray \subseteq {"replace"} => EntriesChain
HarmlessReturn   == astray \subseteq {"return"} => EndsAgree
UnmarkedIsSaved  == ed.dirty \/ ed.text = saved

=============================================================================
