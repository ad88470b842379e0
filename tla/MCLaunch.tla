------------------------------ MODULE MCLaunch ------------------------------
EXTENDS Launch

\* One fact for each stage of each check that behaves in a way of its own.
MCWorld ==
  { "key_absent", "pub_absent", "unregistered", "no_lister", "api_down",
    "no_dead_reason", "missing_file", "hangs", "startup", "marker_present",
    "dir_unwritable", "other_base", "run_complete", "done_past_limit" }

=============================================================================
