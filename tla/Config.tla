--------------------------------- MODULE Config ---------------------------------
(***************************************************************************)
(* The sizes the driver works with, derived from its parameters            *)
(* (src/include/config.hpp): the resolution profile says what the camera   *)
(* captures and what is put out, the rotation what is published.           *)
(***************************************************************************)
EXTENDS Naturals

Resolution(cw, ch, ow, oh, fps) ==
  [capture_width |-> cw, capture_height |-> ch,
   output_width |-> ow, output_height |-> oh, fps |-> fps]

\* The names that have a profile.  Every other name is taken for "sd".
Profiles == {"sd", "hd", "fhd", "wuxga"}

uyvy == [sd    |-> Resolution(1280, 720, 640, 360, 60),
         hd    |-> Resolution(1280, 720, 1280, 720, 60),
         fhd   |-> Resolution(1920, 1080, 1920, 1080, 60),
         wuxga |-> Resolution(1920, 1200, 1920, 1200, 55)]

resolve_profile_uyvy(profile) == uyvy[IF profile \in Profiles THEN profile ELSE "sd"]

\* A slip: one table for both formats.
resolve_profile_shared(profile) == resolve_profile_uyvy(profile)

\* The table for MJPG differs from the one for UYVY in one rate.
resolve_profile_mjpg(profile) ==
  IF profile = "wuxga" THEN Resolution(1920, 1200, 1920, 1200, 60)
                       ELSE resolve_profile_uyvy(profile)

\* A slip: only one of the two quarter turns.
is_left_turn(flip_method) == flip_method = 1

\* nvvidconv: 0 as it is, 1 counterclockwise, 2 by half a turn, 3 clockwise.
is_quarter_turn(flip_method) == flip_method \in {1, 3}

\* The declared parameters, and what is derived from them.
load_params(backend, profile, compressed, flip_method) ==
  LET res == IF compressed THEN resolve_profile_mjpg(profile)
                           ELSE resolve_profile_uyvy(profile)
      quarter == is_quarter_turn(flip_method)
      pub_width == IF quarter THEN res.output_height ELSE res.output_width
      pub_height == IF quarter THEN res.output_width ELSE res.output_height
  IN [backend |-> backend, compressed |-> compressed, flip_method |-> flip_method,
      res |-> res,
      pub_width |-> pub_width, pub_height |-> pub_height,
      expected_size |-> pub_width * pub_height * 3]

================================================================================
