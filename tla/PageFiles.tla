------------------------------ MODULE PageFiles ------------------------------
(***************************************************************************)
(* The page payloads of data.c, as values and operators.                   *)
(*                                                                         *)
(* Every plane of every block LBN has a file test_<n>.bin, a page at a     *)
(* fixed offset of it.  iWritePageData keeps the handle of the file it     *)
(* wrote last and the number n of that file; iReadPageData opens and       *)
(* closes the file it needs on every call.  Files outlive the program:     *)
(* nothing deletes or truncates one.                                       *)
(*                                                                         *)
(* A store s is a record:                                                  *)
(*   s.files  the content of every file, by file number and page.  A page  *)
(*            past the end of its file is Nothing; a file that does not    *)
(*            exist reads like an empty one.                               *)
(*   s.fd     file_mgr.fd_write: the file it writes to, or NoFd (-1)       *)
(*   s.key    file_mgr.blk_lbn_per_plane_wr                                *)
(*                                                                         *)
(* The C library's files are external: opening may fail, the position a    *)
(* write is made at is reached by leaving zeros in the file, and a file    *)
(* opened without _O_BINARY, as iReadPageData opens its own, is read in    *)
(* text mode.                                                              *)
(***************************************************************************)
EXTENDS LbnRing

CONSTANTS
    Ver,        \* contents the host gives to one page
    \* What text mode tells apart of a page's bytes:
    EofAddr,    \* addresses with a byte 0x1A, read as the end of the file
    CrLfAddr,   \* addresses with bytes 0x0D 0x0A, read as the byte 0x0A
    EofVer      \* contents with a byte 0x1A after the first word

ASSUME VerAssumption ==
    /\ Ver \subseteq Nat \ {0}
    /\ EofVer \subseteq Ver
    /\ EofAddr \subseteq Addr
    /\ CrLfAddr \subseteq Addr \ EofAddr

\* A page payload.  Hosts of this simulator put the page's pAddr in the first
\* word: the debug check of iFlashCmdHandler relies on it.
Payloads == [addr : Addr, ver : Ver]

\* A gap of a file: zeros, so its first word is the address 0.
Zeros == [addr |-> 0, ver |-> 0]

Nothing == [addr |-> -1, ver |-> 0]

\* A first word that is no page's address.
Garbled == [addr |-> -2, ver |-> 0]

NoFd == -1

PlaneLbnCnt == Slice * PageCnt

\* Mutant: one file for all the planes of a block.
FileOfAnyPlane(lbn, plane) ==
    LbnBase + ((lbn - LbnBase) \div BlkLbnCnt) * BlkLbnCnt

\* blk_lbn_per_plane
FileOf(lbn, plane) ==
    LbnBase + ((lbn - LbnBase) \div BlkLbnCnt) * BlkLbnCnt
        + plane * PlaneLbnCnt

FileNums == {base + plane * PlaneLbnCnt :
                base \in BlockLbns, plane \in 0 .. PlaneCnt - 1}

Pages == 0 .. PageCnt - 1

Stores ==
    [files : [FileNums -> [Pages -> Payloads \cup {Zeros, Nothing}]],
     fd : FileNums \cup {NoFd},
     key : FileNums \cup {0}]

NoFiles == [n \in FileNums |-> [p \in Pages |-> Nothing]]

\* iInitDevConfig with these files in the directory: it forgets the handle,
\* and does not close it.
FreshStore(files) == [files |-> files, fd |-> NoFd, key |-> 0]

-----------------------------------------------------------------------------
\* _lseek to the page and _write of the payload.
FileWith(file, page, data) ==
    [p \in Pages |->
        CASE p = page -> data
          [] p < page /\ file[p] = Nothing -> Zeros
          [] OTHER -> file[p]]

\* Mutant: the last file stays open when the next one cannot be opened.
WriteHandleKeptOnFailure(s, n, opened) ==
    IF n = s.key THEN s.fd ELSE IF opened THEN n ELSE s.fd

\* The handle iWritePageData writes through, for file number n.  A file
\* other than the last one is opened, which may fail; if it fails the number
\* is remembered all the same, and no write to that file is tried again until
\* another file is written to.
WriteHandle(s, n, opened) ==
    IF n = s.key THEN s.fd ELSE IF opened THEN n ELSE NoFd

\* iWritePageData, which returns 0 whether or not it wrote.
WritePageData(s, lbn, data, page, plane, opened) ==
    LET n == FileOf(lbn, plane)
        fd == WriteHandle(s, n, opened)
    IN  [files |-> IF fd = NoFd THEN s.files
                   ELSE [s.files EXCEPT ![fd] = FileWith(@, page, data)],
         fd |-> fd,
         key |-> n]

\* Where the payload of a page is.
Cell(s, lbn, page, plane) == s.files[FileOf(lbn, plane)][page]

\* _read in text mode: from a byte 0x1A on, the buffer keeps what it held.
TextRead(cell, buf) ==
    IF cell.addr \in EofAddr THEN buf
    ELSE IF cell.addr \in CrLfAddr THEN Garbled
    ELSE IF cell.ver \in EofVer THEN [cell EXCEPT !.ver = buf.ver]
    ELSE cell

\* iReadPageData: what the host's buffer holds afterwards.  It keeps what it
\* held, buf, when the file cannot be opened or ends before the page.
ReadPageData(s, lbn, buf, page, plane, opened) ==
    LET cell == Cell(s, lbn, page, plane)
    IN  IF opened /\ cell # Nothing THEN TextRead(cell, buf) ELSE buf
=============================================================================
