------------------------------ MODULE HttpWrite ------------------------------
(***************************************************************************)
(* The response of http_conn: process_write and the arithmetic of write()  *)
(* on the two iovecs.  A byte is the place it lies at: <<"buf", i>> in     *)
(* m_write_buf, <<"file", i>> in the mapped file; i outside the response   *)
(* is memory that does not belong to it.  All responses fit in m_write_buf.*)
(***************************************************************************)
EXTENDS Integers, Sequences

CONSTANTS
  HeaderLen,   \* bytes of status line and headers before a file
  PageLen,     \* bytes of a whole error page
  FileLen      \* bytes of the file, when it is not empty

ASSUME ResponseAssumption ==
  HeaderLen \in Nat \ {0} /\ PageLen \in Nat \ {0} /\ FileLen \in Nat \ {0}

ErrorPage == {"INTERNAL_ERROR", "BAD_REQUEST", "FORBIDDEN_REQUEST"}
Iovec(base, len) == [base |-> base, len |-> len]

\* what http_conn::init() resets for the writer; m_iv, m_file_address are left
init_write(r) ==
  [r EXCEPT !.bytes_to_send = 0, !.bytes_have_send = 0, !.m_write_idx = 0]

\* process_write: [ok, rec].  An empty file falls through to the default.
process_write(r, ret) ==
  CASE ret \in ErrorPage ->
         [ok |-> TRUE,
          rec |-> [r EXCEPT !.m_write_idx = PageLen, !.bytes_to_send = PageLen,
                            !.m_iv_count = 1, !.m_iv[1] = Iovec(0, PageLen)]]
    [] ret = "FILE_REQUEST" ->
         [ok |-> TRUE,
          rec |-> [r EXCEPT !.m_write_idx = HeaderLen, !.bytes_to_send = HeaderLen + FileLen,
                            !.m_iv_count = 2,
                            !.m_iv = <<Iovec(0, HeaderLen), Iovec(0, FileLen)>>]]
    [] ret = "EMPTY_FILE" -> [ok |-> FALSE, rec |-> [r EXCEPT !.m_write_idx = PageLen]]
    [] OTHER              -> [ok |-> FALSE, rec |-> r]

Bytes(where, from, len) == [k \in 1..len |-> <<where, from + k - 1>>]

\* the bytes a client should get
Response(ret) ==
  CASE ret \in ErrorPage    -> Bytes("buf", 0, PageLen)
    [] ret = "FILE_REQUEST" -> Bytes("buf", 0, HeaderLen) \o Bytes("file", 0, FileLen)
    [] OTHER                -> <<>>

\* what writev is given
Gathered(r) ==
  Bytes("buf", r.m_iv[1].base, r.m_iv[1].len)
    \o (IF r.m_iv_count = 2 THEN Bytes("file", r.m_iv[2].base, r.m_iv[2].len) ELSE <<>>)

Advanced_mut(r, temp) ==   \* the file starts anew after every write
  LET have == r.bytes_have_send + temp
      left == r.bytes_to_send - temp
      sent == [r EXCEPT !.bytes_have_send = have, !.bytes_to_send = left]
  IN IF have >= r.m_iv[1].len
     THEN [sent EXCEPT !.m_iv = <<Iovec(@[1].base, 0), Iovec(0, left)>>]
     ELSE [sent EXCEPT !.m_iv[1] = Iovec(have, r.m_iv[1].len - have)]

\* after writev took temp bytes: the lengths are compared with and reduced by
\* all that was sent so far
Advanced(r, temp) ==
  LET have == r.bytes_have_send + temp
      left == r.bytes_to_send - temp
      sent == [r EXCEPT !.bytes_have_send = have, !.bytes_to_send = left]
  IN IF have >= r.m_iv[1].len
     THEN [sent EXCEPT !.m_iv = <<Iovec(@[1].base, 0), Iovec(have - r.m_write_idx, left)>>]
     ELSE [sent EXCEPT !.m_iv[1] = Iovec(have, r.m_iv[1].len - have)]
=============================================================================
