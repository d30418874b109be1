------------------------------- MODULE MCSftp -------------------------------
(***************************************************************************)
(* SftpLink for a few small applications: each plan puts two or three      *)
(* tasks on the connections of one or two devices.                         *)
(***************************************************************************)
EXTENDS SftpLink

T(kind, conn, name, chunks) == [kind |-> kind, conn |-> conn, name |-> name, chunks |-> chunks]
NoTask == T("none", 1, "a", 0)

MCPlans ==
    { \* Two devices upload the same name; the temporary names may be the same.
      <<T("stream", 1, "a", 1), T("upload", 2, "a", 2), NoTask>>,
      \* Two uploads share the buffer of one connection.
      <<T("stream", 1, "a", 2), T("upload", 1, "b", 1), NoTask>>,
      \* A chunk without a handle between the frames of an upload.
      <<T("stream", 1, "a", 1), T("stray", 1, "b", 0), NoTask>>,
      \* Two downloads compete for one read handle; one waits for the other.
      <<T("upload", 1, "a", 1), T("download", 1, "a", 0), T("download", 1, "a", 0)>>,
      \* The single-shot verbs beside an upload.
      <<T("write", 1, "a", 1), T("read", 1, "a", 0), T("delete", 2, "a", 0)>>,
      \* Two devices whose counters differ upload the same name.
      <<T("upload", 1, "a", 1), T("stat", 2, "a", 0), T("upload", 2, "a", 2)>>,
      \* Two devices prepare the folders; the calls that only ask.
      <<T("folders", 1, "a", 0), T("folders", 2, "a", 0), T("list", 2, "a", 0)>>,
      \* A write above the limit of a frame closes the connection under the others.
      <<T("write", 1, "a", 3), T("upload", 1, "b", 1), T("fs_info", 1, "a", 0)>> }
=============================================================================
