---------------------------- MODULE MCMTCompress ----------------------------
(* Instances of MTCompress for TLC. *)
EXTENDS MTCompress

Bulk == {"continue", "end"}

\* One worker, jobs of one chunk, a round buffer of three.
Base == [nbWorkers |-> 1, section |-> 1, overlap |-> 0, window |-> 0, checksum |-> TRUE, rsyncable |-> FALSE,
         lengths |-> <<3>>, faults |-> 0, abandon |-> 0, ops |-> {"continue", "flush", "end"}, staleReady |-> FALSE]

\* Two workers, jobs that overlap, and more input than the round buffer (five chunks)
\* holds: a slow job must not have its input or its prefix overwritten.
TwoWorkers == [Base EXCEPT !.nbWorkers = 2, !.overlap = 1, !.ops = {"end"}, !.lengths = <<6>>]

\* Long distance matching over two chunks: the caller waits for the window.  With a round
\* buffer of four chunks, and for one worker, with a prefix, of five.
LongDistance == [TwoWorkers EXCEPT !.overlap = 0, !.window = 2, !.checksum = FALSE, !.lengths = <<5>>]

\* A job may fail while another one waits for its turn.
Failing == [TwoWorkers EXCEPT !.overlap = 0, !.ops = Bulk, !.faults = 1, !.lengths = <<3>>]

\* Jobs of two chunks; the prefix moves when the buffer (eight chunks) wraps.
Overlapping == [Base EXCEPT !.section = 2, !.overlap = 1, !.ops = Bulk, !.lengths = <<10>>]

MCConfigs ==
    { Base, TwoWorkers, Failing, Overlapping, LongDistance,
      [LongDistance EXCEPT !.nbWorkers = 1, !.overlap = 1, !.lengths = <<6>>],
      [Overlapping EXCEPT !.ops = Base.ops, !.lengths = <<3>>],                   \* partial jobs by flushing
      [Overlapping EXCEPT !.faults = 1, !.lengths = <<4>>],                       \* a job fails between its chunks
      [Base EXCEPT !.section = 2, !.rsyncable = TRUE, !.checksum = FALSE],      \* partial jobs by rsyncable
      [Base EXCEPT !.ops = Bulk, !.abandon = 1, !.faults = 1, !.lengths = <<2, 2>>],
      [Base EXCEPT !.lengths = <<0, 1>>] }                                      \* empty frames

=============================================================================
