------------------------------ MODULE Weights ------------------------------
(***************************************************************************)
(* crates/mm-score/rules/weights.toml, the table a run is scored with: of   *)
(* every row its group and its log likelihood ratio, in tenths.  Rows no    *)
(* definition of Scoring offers are there with the rest.                    *)
(***************************************************************************)
EXTENDS Integers

(* rules/weights.toml: the rows of each group.                              *)
Table ==
    [antivirus |-> [quarantined_by_av |-> 50, av_detection_logged |-> 25],
     signature |-> [signed_microsoft_catalog |-> -67, signed_trusted_publisher |-> -39,
                    signature_invalid |-> 42, signature_self_signed |-> 26,
                    signature_expired |-> 12, signature_unverifiable |-> 0,
                    unsigned_in_system_zone |-> 42, unsigned_in_program_files |-> 13,
                    unsigned_managed_assembly |-> 17, unsigned_in_user_zone |-> 11,
                    installed_outside_component_store |-> 16,
                    compact_os_compressed_executable |-> 6],
     arrival |-> [arrived_after_its_directory |-> 18],
     location |-> [executable_in_user_temp |-> 26, executable_at_volume_root |-> 38,
                   executable_in_recycle_bin |-> 35, executable_in_windows_temp |-> 30,
                   executable_in_user_appdata |-> 15, executable_in_user_downloads |-> 16,
                   executable_in_programdata |-> 26, executable_in_user_profile |-> 10,
                   executable_in_windows_directory |-> 12,
                   executable_outside_standard_zones |-> 10,
                   persistence_targets_user_profile |-> 31,
                   persistence_targets_scratch_space |-> 43,
                   executable_rare_for_zone_on_this_machine |-> 22],
     baseline_context |-> [lone_executable_among_documents |-> 41],
     name_frequency |-> [name_unique_on_machine |-> 10, name_recurs_on_machine |-> -12],
     masquerade |-> [system_binary_name_outside_system_dir |-> 60,
                     double_extension |-> 44, random_looking_name |-> 24],
     binary_identity |-> [no_version_resource |-> 25, rich_header_checksum_invalid |-> 20,
                          autostart_target_without_version_resource |-> 19],
     persistence |-> [persistence_ifeo |-> 62, persistence_winlogon |-> 54,
                      persistence_com_hijack |-> 48, persistence_scheduled_task |-> 36,
                      persistence_service |-> 34, persistence_run_key |-> 32,
                      persistence_com_server |-> 8],
     persistence_tampering |-> [persistence_deleted_entry |-> 25],
     lifecycle |-> [deleted_soon_after_execution |-> 53, executed_but_now_absent |-> 30,
                    executed_but_now_absent_from_scratch_space |-> 10,
                    created_in_incident_window |-> 18],
     antiforensic |-> [timestomped |-> 48],
     content |-> [yara_match |-> 4],
     packing |-> [pe_structural_anomaly |-> 28, high_entropy_code_section |-> 21],
     duplication |-> [shared_digest_renamed_copy |-> 30],
     provenance |-> [downloaded_from_restricted_zone |-> 22,
                     downloaded_from_internet_zone |-> 8, download_origin_recorded |-> 0],
     runtime |-> [unbacked_executable_memory |-> 68, running_from_user_directory |-> 16]]

Rows == UNION { DOMAIN Table[g] : g \in DOMAIN Table }
GroupOf == [row \in Rows |-> CHOOSE g \in DOMAIN Table : row \in DOMAIN Table[g]]
LogLR == [row \in Rows |-> Table[GroupOf[row]][row]]
=============================================================================
