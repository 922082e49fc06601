------------------------------- MODULE FileStore -------------------------------
(***************************************************************************)
(* What the calls of ufs.c promise a program (docs/ufs.h): named files     *)
(* that are strings of bytes, opened by one user at a time, read and       *)
(* written at a position of the user's own.  Sectors, buffers and the      *)
(* tables of the partition do not occur.  DerpFs.tla implements it.        *)
(***************************************************************************)
EXTENDS Integers, Sequences, FiniteSets

CONSTANTS
  Names,     \* file names
  Handle,    \* the FILEs that can be open
  NONE,      \* returned for "no"
  Offsets,   \* the offsets and sizes that calls ask for
  Strings    \* the strings of bytes that calls write

VARIABLES
  files,     \* the content of each file that exists
  open,      \* the file and the position of each open FILE
  call,      \* the last call
  answer     \* what it returned

vars == <<files, open, call, answer>>

Init ==
  /\ files = [n \in {} |-> <<>>]
  /\ open = [h \in {} |-> <<>>]
  /\ call = "boot"
  /\ answer = 0

Content(h)   == files[open[h].name]
Move(h, to)  == open' = [open EXCEPT ![h].pos = to]
Drop(f, x)   == [y \in DOMAIN f \ {x} |-> f[y]]
Add(f, x, v) == [y \in DOMAIN f \cup {x} |-> IF y \in DOMAIN f THEN f[y] ELSE v]
InUse(n)     == \E h \in DOMAIN open : open[h].name = n

-----------------------------------------------------------------------------
\* A file that does not exist is created.
Open(n) ==
  /\ call' = "fopen"
  /\ \/ \E h \in Handle \ DOMAIN open :
          /\ ~InUse(n)
          /\ answer' = h
          /\ open' = Add(open, h, [name |-> n, pos |-> 0])
          /\ files' = Add(files, n, <<>>)
     \/ /\ InUse(n) \/ DOMAIN open = Handle
        /\ answer' = NONE
        /\ UNCHANGED <<files, open>>

Close(h)  == call' = "fclose" /\ answer' = 0 /\ open' = Drop(open, h) /\ UNCHANGED files
Flush(h)  == call' = "fflush" /\ answer' = 0 /\ UNCHANGED <<files, open>>
Delete(h) == /\ call' = "fdelete" /\ answer' = 0
             /\ files' = Drop(files, open[h].name)
             /\ open' = Drop(open, h)

\* To an offset up to the end of the file; or forward to a byte of the file; or back.
\* Any other seek is refused.
SeekTo(h, offset, ok) ==
  /\ call' = "fseek"
  /\ \/ answer' = 0 /\ Move(h, offset) /\ ok
     \/ answer' = NONE /\ UNCHANGED open /\ ~ok
  /\ UNCHANGED files
SeekAbs(h, by) == SeekTo(h, by, by <= Len(Content(h)))
SeekRel(h, by) == LET to == open[h].pos + by IN SeekTo(h, to, to < Len(Content(h)))
SeekRev(h, by) == LET to == open[h].pos - by IN SeekTo(h, to, to >= 0)

\* The bytes from the position on: fewer than asked for only at the end of the file.
Read(h, size) ==
  LET from == open[h].pos
      left == Len(Content(h)) - from
      n    == IF size <= left THEN size ELSE left
  IN /\ call' = "fread"
     /\ answer' = SubSeq(Content(h), from + 1, from + n)
     /\ Move(h, from + n)
     /\ UNCHANGED files

\* Bytes are replaced and, past the end, added.
Write(h, bytes) ==
  LET from == open[h].pos
      to   == from + Len(bytes)
      old  == Content(h)
      new  == [i \in 1 .. IF to > Len(old) THEN to ELSE Len(old) |->
                 IF i \in from+1 .. to THEN bytes[i - from] ELSE old[i]]
  IN /\ call' = "fwrite"
     /\ answer' = Len(bytes)
     /\ Move(h, to)
     /\ files' = [files EXCEPT ![open[h].name] = new]

Next ==
  \/ \E n \in Names : Open(n)
  \/ \E h \in DOMAIN open :
       \/ Close(h) \/ Flush(h) \/ Delete(h)
       \/ \E by \in Offsets : SeekAbs(h, by) \/ SeekRel(h, by) \/ SeekRev(h, by)
       \/ \E size \in Offsets : Read(h, size)
       \/ \E bytes \in Strings : Write(h, bytes)

Spec == Init /\ [][Next]_vars

\* Nothing is ever read that was not written, and nothing open has gone.
OpenFilesExist == \A h \in DOMAIN open :
  open[h].name \in DOMAIN files /\ open[h].pos <= Len(files[open[h].name])
=============================================================================
