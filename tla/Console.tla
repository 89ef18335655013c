------------------------------- MODULE Console -------------------------------
(***************************************************************************)
(* The line editor of the command line interface, cli_microrl.c: the       *)
(* command line with its cursor, the escape sequences, and the history, a  *)
(* ring of bytes in which each line stands after a byte with its length,   *)
(* and a zero length ends the walk.  A space is stored as a zero byte.     *)
(* What is printed is left out, and so are the callbacks.                  *)
(***************************************************************************)
EXTENDS Naturals, Sequences

CONSTANTS
  COMMAND_LINE_LEN,  \* _COMMAND_LINE_LEN
  RING_HISTORY_LEN,  \* _RING_HISTORY_LEN
  ConsoleChars,      \* the bytes that can be typed, a space being 0
  Completions        \* the texts a completion may insert

ASSUME ConsoleAssumption ==
  /\ COMMAND_LINE_LEN \in Nat \ {0} /\ RING_HISTORY_LEN \in Nat \ {0, 1}
  /\ ConsoleChars \subseteq Nat /\ Completions \subseteq Seq(Nat)

VARIABLES
  cmdline, cmdlen, cursor,
  escape,      \* in an escape sequence
  escapeSeq,   \* escape_seq, which outlives its sequence
  ringBuf, histBegin, histEnd, histCur   \* ring_hist

conLine == <<cmdline, cmdlen, cursor>>
conEscape == <<escape, escapeSeq>>
conHist == <<ringBuf, histBegin, histEnd, histCur>>
consoleVars == <<conLine, conEscape, conHist>>

Cells == 0 .. COMMAND_LINE_LEN - 1
RingCells == 0 .. RING_HISTORY_LEN - 1

ConsoleInit ==
  /\ cmdline = [i \in Cells |-> 0] /\ cmdlen = 0 /\ cursor = 0
  /\ escape = FALSE /\ escapeSeq = "none"
  /\ ringBuf = [i \in RingCells |-> 0]
  /\ histBegin = 0 /\ histEnd = 0 /\ histCur = 0

-----------------------------------------------------------------------------
(* The ring of the history.                                                *)

\* The header after the one at h.
NextHeader(h) == (h + ringBuf[h] + 1) % RING_HISTORY_LEN

\* The headers, from the oldest line on; the one of length 0 ends the walk.
Header[k \in 0 .. RING_HISTORY_LEN] ==
  IF k = 0 THEN histBegin ELSE NextHeader(Header[k - 1])

HistCount ==
  CHOOSE k \in 0 .. RING_HISTORY_LEN :
    ringBuf[Header[k]] = 0 /\ \A j \in 0 .. k - 1 : ringBuf[Header[j]] # 0

\* The line at header h.
LineAt(h) == [i \in 1 .. ringBuf[h] |-> ringBuf[(h + i) % RING_HISTORY_LEN]]

\* Mutant: one byte too many is taken for free.
SpaceFromOne(b, len) ==
  \/ ringBuf[b] = 0
  \/ histEnd >= b /\ RING_HISTORY_LEN - histEnd + b - 1 >= len
  \/ histEnd < b /\ b - histEnd - 1 >= len

\* hist_is_space_for_new, were the ring to begin at b.
SpaceFrom(b, len) ==
  \/ ringBuf[b] = 0
  \/ histEnd >= b /\ RING_HISTORY_LEN - histEnd + b - 1 > len
  \/ histEnd < b /\ b - histEnd - 1 > len

\* The lines to erase, oldest first, before a line of len bytes is stored.
Erased(len) ==
  CHOOSE k \in 0 .. RING_HISTORY_LEN :
    /\ SpaceFrom(Header[k], len)
    /\ \A j \in 0 .. k - 1 : ~SpaceFrom(Header[j], len)

\* hist_save_line
HistSave(len) ==
  LET stored == [i \in RingCells |->
        LET at == (i + RING_HISTORY_LEN - histEnd) % RING_HISTORY_LEN
        IN CASE at = 0           -> len
             [] at \in 1 .. len  -> cmdline[at - 1]
             [] at = len + 1     -> 0
             [] OTHER            -> ringBuf[i]]
  IN IF len > RING_HISTORY_LEN - 2
     THEN UNCHANGED <<ringBuf, histBegin, histEnd>>
     ELSE /\ ringBuf' = stored
          /\ histBegin' = Header[Erased(len)]
          /\ histEnd' = (histEnd + len + 1) % RING_HISTORY_LEN

\* Restoring a line clears the rest of the command line only on the way up.
Restore(h, clear) ==
  /\ cmdline' = [i \in Cells |->
       IF i < ringBuf[h] THEN LineAt(h)[i + 1] ELSE IF clear THEN 0 ELSE cmdline[i]]
  /\ cmdlen' = ringBuf[h] /\ cursor' = ringBuf[h]

-----------------------------------------------------------------------------
(* The keys.                                                               *)

\* microrl_insert_text
Inserted(text) ==
  LET n == Len(text)
  IN [i \in Cells |->
       CASE i < cursor                       -> cmdline[i]
         [] i \in cursor .. cursor + n - 1   -> text[i - cursor + 1]
         [] i \in cursor + n .. cmdlen + n - 1 -> cmdline[i - n]
         [] i = cmdlen + n                   -> 0
         [] OTHER                            -> cmdline[i]]

\* Mutant: the terminating zero is not counted.
InsertTextFull(text) ==
  IF cmdlen + Len(text) <= COMMAND_LINE_LEN
  THEN /\ cmdline' = Inserted(text)
       /\ cmdlen' = cmdlen + Len(text) /\ cursor' = cursor + Len(text)
  ELSE UNCHANGED conLine

InsertText(text) ==
  IF cmdlen + Len(text) < COMMAND_LINE_LEN
  THEN /\ cmdline' = Inserted(text)
       /\ cmdlen' = cmdlen + Len(text) /\ cursor' = cursor + Len(text)
  ELSE UNCHANGED conLine

\* A space does not begin a line.
KeyChar(ch) ==
  /\ ~escape /\ ~(ch = 0 /\ cmdlen = 0)
  /\ InsertText(<<ch>>)
  /\ UNCHANGED <<conEscape, conHist>>

\* microrl_get_complite: the rest of a word, and a space, where they fit.
KeyTab(text) ==
  /\ ~escape
  /\ IF cmdlen + Len(text) + 1 < COMMAND_LINE_LEN
     THEN InsertText(Append(text, 0)) ELSE InsertText(text)
  /\ UNCHANGED <<conEscape, conHist>>

\* microrl_backspace, n times
Backspace(n) ==
  /\ cmdline' = [i \in Cells |->
       IF i < cursor - n THEN cmdline[i]
       ELSE IF i < cmdlen - n THEN cmdline[i + n]
       ELSE IF i <= cmdlen THEN 0 ELSE cmdline[i]]
  /\ cmdlen' = cmdlen - n /\ cursor' = cursor - n

KeyBackspace ==
  /\ ~escape
  /\ Backspace(IF cursor > 0 THEN 1 ELSE 0)
  /\ UNCHANGED <<conEscape, conHist>>

KeyClear ==  \* ^U
  /\ ~escape
  /\ Backspace(cursor)
  /\ UNCHANGED <<conEscape, conHist>>

KeyKill ==   \* ^K
  /\ ~escape
  /\ cmdlen' = cursor
  /\ UNCHANGED <<cmdline, cursor, conEscape, conHist>>

\* new_line_handler
KeyEnter ==
  /\ ~escape
  /\ IF cmdlen > 0 THEN HistSave(cmdlen)
                   ELSE UNCHANGED <<ringBuf, histBegin, histEnd>>
  /\ histCur' = 0
  /\ cmdline' = [i \in Cells |-> 0] /\ cmdlen' = 0 /\ cursor' = 0
  /\ UNCHANGED conEscape

MoveTo(c) == cursor' = c /\ UNCHANGED <<cmdline, cmdlen>>

Left == MoveTo(IF cursor > 0 THEN cursor - 1 ELSE 0)
Right == MoveTo(IF cursor < cmdlen THEN cursor + 1 ELSE cursor)

\* hist_restore_line
HistUp ==
  IF histCur < HistCount
  THEN histCur' = histCur + 1 /\ Restore(Header[HistCount - 1 - histCur], TRUE)
  ELSE UNCHANGED <<histCur, conLine>>

\* The line the way down shows, or an empty one.
DownHeader == Header[HistCount + 1 - histCur]

HistDown ==
  IF histCur > 0
  THEN histCur' = histCur - 1 /\ Restore(DownHeader, FALSE)
  ELSE cmdlen' = 0 /\ cursor' = 0 /\ UNCHANGED <<histCur, cmdline>>

KeyMove ==   \* ^A, ^E, ^B, ^F
  /\ ~escape
  /\ MoveTo(0) \/ MoveTo(cmdlen) \/ Left \/ Right
  /\ UNCHANGED <<conEscape, conHist>>

KeyHistory ==  \* ^P, ^N
  /\ ~escape
  /\ HistUp \/ HistDown
  /\ UNCHANGED <<conEscape, ringBuf, histBegin, histEnd>>

KeyEsc ==
  /\ ~escape /\ escape' = TRUE
  /\ UNCHANGED <<escapeSeq, conLine, conHist>>

\* escape_process: a sequence goes on ...
EscapeGoesOn ==
  /\ escape
  /\ \/ escapeSeq' = "bracket"
     \/ escapeSeq = "bracket" /\ escapeSeq' \in {"home", "end"}
  /\ UNCHANGED <<escape, conLine, conHist>>

\* ... or ends, as an arrow, as HOME or END, or as nothing known.
EscapeEnds ==
  /\ escape /\ escape' = FALSE
  /\ \/ /\ escapeSeq = "bracket"
        /\ \/ HistUp \/ HistDown
           \/ (Left \/ Right) /\ UNCHANGED histCur
     \/ escapeSeq = "home" /\ MoveTo(0) /\ UNCHANGED histCur
     \/ escapeSeq = "end" /\ MoveTo(cmdlen) /\ UNCHANGED histCur
     \/ UNCHANGED <<conLine, histCur>>
  /\ UNCHANGED <<escapeSeq, ringBuf, histBegin, histEnd>>

ConsoleNext ==
  \/ \E ch \in ConsoleChars : KeyChar(ch)
  \/ \E text \in Completions : KeyTab(text)
  \/ KeyBackspace \/ KeyClear \/ KeyKill \/ KeyEnter
  \/ KeyMove \/ KeyHistory
  \/ KeyEsc \/ EscapeGoesOn \/ EscapeEnds

ConsoleSpec == ConsoleInit /\ [][ConsoleNext]_consoleVars

-----------------------------------------------------------------------------
(* Properties.                                                             *)

ConsoleTypeOK ==
  /\ cmdline \in [Cells -> Nat] /\ ringBuf \in [RingCells -> Nat]
  /\ cmdlen \in Cells /\ cursor \in 0 .. cmdlen
  /\ escape \in BOOLEAN /\ escapeSeq \in {"none", "bracket", "home", "end"}
  /\ histBegin \in RingCells /\ histEnd \in RingCells /\ histCur \in RingCells

Lists == INSTANCE CommandHistory WITH
  Room <- RING_HISTORY_LEN - 1,
  lines <- [k \in 1 .. HistCount |-> LineAt(Header[k - 1])],
  back <- histCur,
  shown <- [i \in 1 .. cmdlen |-> cmdline[i - 1]]

\* Wherever the ring wraps and whatever its free bytes held, the history keeps
\* the newest lines that fit, whole and in order, and going up and down shows
\* them: no header is overwritten and none is taken from a line's bytes.
HistoryImplements == Lists!Spec
=============================================================================
