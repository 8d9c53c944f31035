------------------------------ MODULE HttpRead ------------------------------
(***************************************************************************)
(* The parser of http_conn: process_read, its line splitter and the three  *)
(* parsers it drives, as operators on the fields of a connection.          *)
(*                                                                         *)
(* Input comes in units: a carriage return, a line feed, a whole request   *)
(* line or header without its line end, or a byte of a body.  A cut inside *)
(* a line is as good as one before its end, as parse_line passes over any  *)
(* other character.  Indices count from 0 as in the code; m_read_idx is    *)
(* the length of m_read_buf.                                               *)
(***************************************************************************)
EXTENDS Integers, Sequences, SequencesExt

CONSTANT ContentLength   \* the number a Content-length header declares

ASSUME LengthAssumption == ContentLength \in Nat \ {0}

CheckState == {"REQUESTLINE", "HEADER", "CONTENT"}
LineEnd    == {"CR", "LF"}
Body       == {"b1", "b2"}
Unit       == STRING \cup {"NUL"}   \* or '\0', in the place of a line end passed

\* the fields the parser uses
Parser == [m_check_state : CheckState, m_linger : BOOLEAN, m_content_length : Nat,
           m_start_line : Nat, m_checked_idx : Nat, m_read_buf : Seq(Unit),
           cgi : 0..1, m_string : Seq(Unit)]

\* what http_conn::init() resets for the parser; m_string is left as it is
init_read(r) ==
  [r EXCEPT !.m_check_state = "REQUESTLINE", !.m_linger = FALSE, !.m_content_length = 0,
            !.m_start_line = 0, !.m_checked_idx = 0, !.m_read_buf = <<>>, !.cgi = 0]

-----------------------------------------------------------------------------
Stopped(r, status, idx) == [status |-> status, rec |-> [r EXCEPT !.m_checked_idx = idx]]

\* a line ends at i and i + 1, which become '\0'
Ended(r, i) ==
  [status |-> "LINE_OK",
   rec |-> [r EXCEPT !.m_read_buf = [@ EXCEPT ![i + 1] = "NUL", ![i + 2] = "NUL"],
                     !.m_checked_idx = i + 2]]

parse_line_mut(r) ==     \* passes a carriage return that is the last unit received
  LET at(i) == r.m_read_buf[i + 1]
      size  == Len(r.m_read_buf)
      ends  == {i \in r.m_checked_idx..(size - 1) : at(i) \in LineEnd}
      first == Min(ends)
  IN IF ends = {} THEN Stopped(r, "LINE_OPEN", size)
     ELSE CASE at(first) = "CR" /\ first + 1 = size       -> Stopped(r, "LINE_OPEN", size)
            [] at(first) = "CR" /\ first + 1 < size /\ at(first + 1) = "LF" -> Ended(r, first)
            [] OTHER                                      -> Stopped(r, "LINE_BAD", first)

\* parse_line: the line that starts at m_checked_idx, if its end has arrived
parse_line(r) ==
  LET at(i) == r.m_read_buf[i + 1]
      size  == Len(r.m_read_buf)
      ends  == {i \in r.m_checked_idx..(size - 1) : at(i) \in LineEnd}
      first == Min(ends)
  IN IF ends = {} THEN Stopped(r, "LINE_OPEN", size)
     ELSE CASE at(first) = "CR" /\ first + 1 = size       -> Stopped(r, "LINE_OPEN", first)
            [] at(first) = "CR" /\ first + 1 < size /\ at(first + 1) = "LF" -> Ended(r, first)
            [] at(first) = "LF" /\ first > 1 /\ at(first - 1) = "CR" -> Ended(r, first - 1)
            [] OTHER                                      -> Stopped(r, "LINE_BAD", first)

Goes(r, ret) == [rec |-> r, ret |-> ret]

parse_request_line(r, text) ==
  CASE text = <<"GET">>  -> Goes([r EXCEPT !.m_check_state = "HEADER"], "NO_REQUEST")
    [] text = <<"POST">> -> Goes([r EXCEPT !.m_check_state = "HEADER", !.cgi = 1], "NO_REQUEST")
    [] OTHER             -> Goes(r, "BAD_REQUEST")

parse_headers_mut(r, text) ==   \* does not wait for the body
  CASE text = <<>>               -> Goes(r, "GET_REQUEST")
    [] text = <<"keep-alive">>   -> Goes([r EXCEPT !.m_linger = TRUE], "NO_REQUEST")
    [] text = <<"length">>       -> Goes([r EXCEPT !.m_content_length = ContentLength], "NO_REQUEST")
    [] OTHER                     -> Goes(r, "NO_REQUEST")

\* an empty line ends the headers; unknown ones are passed over
parse_headers(r, text) ==
  CASE text = <<>> /\ r.m_content_length # 0
         -> Goes([r EXCEPT !.m_check_state = "CONTENT"], "NO_REQUEST")
    [] text = <<>> /\ r.m_content_length = 0
         -> Goes(r, "GET_REQUEST")
    [] text = <<"keep-alive">>   -> Goes([r EXCEPT !.m_linger = TRUE], "NO_REQUEST")
    [] text = <<"length">>       -> Goes([r EXCEPT !.m_content_length = ContentLength], "NO_REQUEST")
    [] OTHER                     -> Goes(r, "NO_REQUEST")

\* the body is thought complete when that much follows m_checked_idx
parse_content(r, start) ==
  IF Len(r.m_read_buf) >= r.m_content_length + r.m_checked_idx
  THEN Goes([r EXCEPT !.m_string = SubSeq(r.m_read_buf, start + 1, start + r.m_content_length)],
            "GET_REQUEST")
  ELSE Goes(r, "NO_REQUEST")

\* m_start_line, m_checked_idx and m_read_idx are in this order
Indexed == {r \in Parser : /\ r.m_start_line <= r.m_checked_idx
                           /\ r.m_checked_idx <= Len(r.m_read_buf)}

Loop == [rec : Indexed, ret : {"NO_REQUEST", "GET_REQUEST", "BAD_REQUEST"}, over : BOOLEAN,
         line_status : {"LINE_OK", "LINE_OPEN"}]

\* One turn of the loop in process_read.  A body is not looked for by lines as
\* long as line_status is LINE_OK; after parse_content asked for more, it is
\* LINE_OPEN, and the loop condition calls parse_line on the body.
Turn(s) ==
  LET content == s.rec.m_check_state = "CONTENT" /\ s.line_status = "LINE_OK"
      line    == IF content THEN [status |-> "LINE_OK", rec |-> s.rec] ELSE parse_line(s.rec)
      start   == line.rec.m_start_line
      text    == SubSeq(line.rec.m_read_buf, start + 1, line.rec.m_checked_idx - 2)
      r       == [line.rec EXCEPT !.m_start_line = line.rec.m_checked_idx]
      parsed  == CASE r.m_check_state = "REQUESTLINE" -> parse_request_line(r, text)
                   [] r.m_check_state = "HEADER"      -> parse_headers(r, text)
                   [] r.m_check_state = "CONTENT"     -> parse_content(r, start)
  IN IF line.status # "LINE_OK" THEN [s EXCEPT !.rec = line.rec, !.over = TRUE]
     ELSE [rec |-> parsed.rec, ret |-> parsed.ret, over |-> parsed.ret # "NO_REQUEST",
           line_status |-> IF r.m_check_state = "CONTENT" THEN "LINE_OPEN" ELSE "LINE_OK"]

\* process_read up to do_request: GET_REQUEST, BAD_REQUEST or NO_REQUEST
process_read(r) ==
  LET loop[s \in Loop] == IF s.over THEN s ELSE loop[Turn(s)]
      final == loop[[rec |-> r, ret |-> "NO_REQUEST", over |-> FALSE, line_status |-> "LINE_OK"]]
  IN Goes(final.rec, final.ret)
=============================================================================
