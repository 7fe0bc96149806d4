\* Identifiers of up to four fragments and a half, of which a length byte counts
\* three; a header of nlmsg_len, two bytes of nlmsg_seq, and nlmsg_pid; two
\* threads that read events.
CONSTANTS
  IdLen = 2
  HeaderLen = 4
  SeqOffset = 1
  SeqLen = 2
  ByteRange = 4
  MaxLen = 9
  Readers = {r1, r2}
  MaxInbox = 2
SPECIFICATION Spec
INVARIANTS
  RequestsAreUnderstood
  CopiesFillTheBuffer
  LibrariesSendTheSame
  EventsAreReadBack
