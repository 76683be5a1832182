----------------------------- MODULE MCUvServer -----------------------------
(* UvServer on small instances.                                            *)
EXTENDS UvServer
=============================================================================
