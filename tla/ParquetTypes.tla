---------------------------- MODULE ParquetTypes ----------------------------
(***************************************************************************)
(* The structures of parquet_types.cpp.  What its read() and write()       *)
(* functions do differs only in the fields: the number and the type of     *)
(* each, and whether it is required.  The type of a field is that of a     *)
(* number or a string, or the name of a structure; an enumeration is an    *)
(* I32.  ThriftMessages has the one reader and the one writer.             *)
(***************************************************************************)
EXTENDS Integers

Required(id, of) == [id |-> id, of |-> of, list |-> FALSE, required |-> TRUE]
Optional(id, of) == [id |-> id, of |-> of, list |-> FALSE, required |-> FALSE]
RequiredList(id, of) == [id |-> id, of |-> of, list |-> TRUE, required |-> TRUE]
OptionalList(id, of) == [id |-> id, of |-> of, list |-> TRUE, required |-> FALSE]

NoFields == [name \in {} |-> Optional(0, "BOOL")]

Statistics ==
    [max |-> Optional(1, "STRING"), min |-> Optional(2, "STRING"),
     null_count |-> Optional(3, "I64"), distinct_count |-> Optional(4, "I64"),
     max_value |-> Optional(5, "STRING"), min_value |-> Optional(6, "STRING")]

StringType == NoFields

UUIDType == NoFields

MapType == NoFields

ListType == NoFields

EnumType == NoFields

DateType == NoFields

NullType == NoFields

DecimalType ==
    [scale |-> Required(1, "I32"), precision |-> Required(2, "I32")]

MilliSeconds == NoFields

MicroSeconds == NoFields

NanoSeconds == NoFields

TimeUnit ==
    [MILLIS |-> Optional(1, "MilliSeconds"),
     MICROS |-> Optional(2, "MicroSeconds"),
     NANOS |-> Optional(3, "NanoSeconds")]

TimestampType ==
    [isAdjustedToUTC |-> Required(1, "BOOL"),
     unit |-> Required(2, "TimeUnit")]

TimeType ==
    [isAdjustedToUTC |-> Required(1, "BOOL"),
     unit |-> Required(2, "TimeUnit")]

IntType ==
    [bitWidth |-> Required(1, "BYTE"), isSigned |-> Required(2, "BOOL")]

JsonType == NoFields

BsonType == NoFields

LogicalType ==
    [STRING |-> Optional(1, "StringType"), MAP |-> Optional(2, "MapType"),
     LIST |-> Optional(3, "ListType"), ENUM |-> Optional(4, "EnumType"),
     DECIMAL |-> Optional(5, "DecimalType"), DATE |-> Optional(6, "DateType"),
     TIME |-> Optional(7, "TimeType"),
     TIMESTAMP |-> Optional(8, "TimestampType"),
     INTEGER |-> Optional(10, "IntType"),
     UNKNOWN |-> Optional(11, "NullType"), JSON |-> Optional(12, "JsonType"),
     BSON |-> Optional(13, "BsonType"), UUID |-> Optional(14, "UUIDType")]

SchemaElement ==
    [type |-> Optional(1, "I32"), type_length |-> Optional(2, "I32"),
     repetition_type |-> Optional(3, "I32"), name |-> Required(4, "STRING"),
     num_children |-> Optional(5, "I32"),
     converted_type |-> Optional(6, "I32"), scale |-> Optional(7, "I32"),
     precision |-> Optional(8, "I32"), field_id |-> Optional(9, "I32"),
     logicalType |-> Optional(10, "LogicalType")]

DataPageHeader ==
    [num_values |-> Required(1, "I32"), encoding |-> Required(2, "I32"),
     definition_level_encoding |-> Required(3, "I32"),
     repetition_level_encoding |-> Required(4, "I32"),
     statistics |-> Optional(5, "Statistics")]

IndexPageHeader == NoFields

DictionaryPageHeader ==
    [num_values |-> Required(1, "I32"), encoding |-> Required(2, "I32"),
     is_sorted |-> Optional(3, "BOOL")]

DataPageHeaderV2 ==
    [num_values |-> Required(1, "I32"), num_nulls |-> Required(2, "I32"),
     num_rows |-> Required(3, "I32"), encoding |-> Required(4, "I32"),
     definition_levels_byte_length |-> Required(5, "I32"),
     repetition_levels_byte_length |-> Required(6, "I32"),
     is_compressed |-> Optional(7, "BOOL"),
     statistics |-> Optional(8, "Statistics")]

SplitBlockAlgorithm == NoFields

BloomFilterAlgorithm == [BLOCK |-> Optional(1, "SplitBlockAlgorithm")]

XxHash == NoFields

BloomFilterHash == [XXHASH |-> Optional(1, "XxHash")]

Uncompressed == NoFields

BloomFilterCompression == [UNCOMPRESSED |-> Optional(1, "Uncompressed")]

BloomFilterHeader ==
    [numBytes |-> Required(1, "I32"),
     algorithm |-> Required(2, "BloomFilterAlgorithm"),
     hash |-> Required(3, "BloomFilterHash"),
     compression |-> Required(4, "BloomFilterCompression")]

PageHeader ==
    [type |-> Required(1, "I32"),
     uncompressed_page_size |-> Required(2, "I32"),
     compressed_page_size |-> Required(3, "I32"), crc |-> Optional(4, "I32"),
     data_page_header |-> Optional(5, "DataPageHeader"),
     index_page_header |-> Optional(6, "IndexPageHeader"),
     dictionary_page_header |-> Optional(7, "DictionaryPageHeader"),
     data_page_header_v2 |-> Optional(8, "DataPageHeaderV2")]

KeyValue == [key |-> Required(1, "STRING"), value |-> Optional(2, "STRING")]

SortingColumn ==
    [column_idx |-> Required(1, "I32"), descending |-> Required(2, "BOOL"),
     nulls_first |-> Required(3, "BOOL")]

PageEncodingStats ==
    [page_type |-> Required(1, "I32"), encoding |-> Required(2, "I32"),
     count |-> Required(3, "I32")]

ColumnMetaData ==
    [type |-> Required(1, "I32"), encodings |-> RequiredList(2, "I32"),
     path_in_schema |-> RequiredList(3, "STRING"),
     codec |-> Required(4, "I32"), num_values |-> Required(5, "I64"),
     total_uncompressed_size |-> Required(6, "I64"),
     total_compressed_size |-> Required(7, "I64"),
     key_value_metadata |-> OptionalList(8, "KeyValue"),
     data_page_offset |-> Required(9, "I64"),
     index_page_offset |-> Optional(10, "I64"),
     dictionary_page_offset |-> Optional(11, "I64"),
     statistics |-> Optional(12, "Statistics"),
     encoding_stats |-> OptionalList(13, "PageEncodingStats"),
     bloom_filter_offset |-> Optional(14, "I64")]

EncryptionWithFooterKey == NoFields

EncryptionWithColumnKey ==
    [path_in_schema |-> RequiredList(1, "STRING"),
     key_metadata |-> Optional(2, "STRING")]

ColumnCryptoMetaData ==
    [ENCRYPTION_WITH_FOOTER_KEY |-> Optional(1, "EncryptionWithFooterKey"),
     ENCRYPTION_WITH_COLUMN_KEY |-> Optional(2, "EncryptionWithColumnKey")]

ColumnChunk ==
    [file_path |-> Optional(1, "STRING"), file_offset |-> Required(2, "I64"),
     meta_data |-> Optional(3, "ColumnMetaData"),
     offset_index_offset |-> Optional(4, "I64"),
     offset_index_length |-> Optional(5, "I32"),
     column_index_offset |-> Optional(6, "I64"),
     column_index_length |-> Optional(7, "I32"),
     crypto_metadata |-> Optional(8, "ColumnCryptoMetaData"),
     encrypted_column_metadata |-> Optional(9, "STRING")]

RowGroup ==
    [columns |-> RequiredList(1, "ColumnChunk"),
     total_byte_size |-> Required(2, "I64"), num_rows |-> Required(3, "I64"),
     sorting_columns |-> OptionalList(4, "SortingColumn"),
     file_offset |-> Optional(5, "I64"),
     total_compressed_size |-> Optional(6, "I64"),
     ordinal |-> Optional(7, "I16")]

TypeDefinedOrder == NoFields

ColumnOrder == [TYPE_ORDER |-> Optional(1, "TypeDefinedOrder")]

PageLocation ==
    [offset |-> Required(1, "I64"),
     compressed_page_size |-> Required(2, "I32"),
     first_row_index |-> Required(3, "I64")]

OffsetIndex == [page_locations |-> RequiredList(1, "PageLocation")]

ColumnIndex ==
    [null_pages |-> RequiredList(1, "BOOL"),
     min_values |-> RequiredList(2, "STRING"),
     max_values |-> RequiredList(3, "STRING"),
     boundary_order |-> Required(4, "I32"),
     null_counts |-> OptionalList(5, "I64")]

AesGcmV1 ==
    [aad_prefix |-> Optional(1, "STRING"),
     aad_file_unique |-> Optional(2, "STRING"),
     supply_aad_prefix |-> Optional(3, "BOOL")]

AesGcmCtrV1 ==
    [aad_prefix |-> Optional(1, "STRING"),
     aad_file_unique |-> Optional(2, "STRING"),
     supply_aad_prefix |-> Optional(3, "BOOL")]

EncryptionAlgorithm ==
    [AES_GCM_V1 |-> Optional(1, "AesGcmV1"),
     AES_GCM_CTR_V1 |-> Optional(2, "AesGcmCtrV1")]

FileMetaData ==
    [version |-> Required(1, "I32"),
     schema |-> RequiredList(2, "SchemaElement"),
     num_rows |-> Required(3, "I64"),
     row_groups |-> RequiredList(4, "RowGroup"),
     key_value_metadata |-> OptionalList(5, "KeyValue"),
     created_by |-> Optional(6, "STRING"),
     column_orders |-> OptionalList(7, "ColumnOrder"),
     encryption_algorithm |-> Optional(8, "EncryptionAlgorithm"),
     footer_signing_key_metadata |-> Optional(9, "STRING")]

FileCryptoMetaData ==
    [encryption_algorithm |-> Required(1, "EncryptionAlgorithm"),
     key_metadata |-> Optional(2, "STRING")]

Structs ==
    [Statistics |-> Statistics, StringType |-> StringType,
     UUIDType |-> UUIDType, MapType |-> MapType, ListType |-> ListType,
     EnumType |-> EnumType, DateType |-> DateType, NullType |-> NullType,
     DecimalType |-> DecimalType, MilliSeconds |-> MilliSeconds,
     MicroSeconds |-> MicroSeconds, NanoSeconds |-> NanoSeconds,
     TimeUnit |-> TimeUnit, TimestampType |-> TimestampType,
     TimeType |-> TimeType, IntType |-> IntType, JsonType |-> JsonType,
     BsonType |-> BsonType, LogicalType |-> LogicalType,
     SchemaElement |-> SchemaElement, DataPageHeader |-> DataPageHeader,
     IndexPageHeader |-> IndexPageHeader,
     DictionaryPageHeader |-> DictionaryPageHeader,
     DataPageHeaderV2 |-> DataPageHeaderV2,
     SplitBlockAlgorithm |-> SplitBlockAlgorithm,
     BloomFilterAlgorithm |-> BloomFilterAlgorithm, XxHash |-> XxHash,
     BloomFilterHash |-> BloomFilterHash, Uncompressed |-> Uncompressed,
     BloomFilterCompression |-> BloomFilterCompression,
     BloomFilterHeader |-> BloomFilterHeader, PageHeader |-> PageHeader,
     KeyValue |-> KeyValue, SortingColumn |-> SortingColumn,
     PageEncodingStats |-> PageEncodingStats,
     ColumnMetaData |-> ColumnMetaData,
     EncryptionWithFooterKey |-> EncryptionWithFooterKey,
     EncryptionWithColumnKey |-> EncryptionWithColumnKey,
     ColumnCryptoMetaData |-> ColumnCryptoMetaData,
     ColumnChunk |-> ColumnChunk, RowGroup |-> RowGroup,
     TypeDefinedOrder |-> TypeDefinedOrder, ColumnOrder |-> ColumnOrder,
     PageLocation |-> PageLocation, OffsetIndex |-> OffsetIndex,
     ColumnIndex |-> ColumnIndex, AesGcmV1 |-> AesGcmV1,
     AesGcmCtrV1 |-> AesGcmCtrV1, EncryptionAlgorithm |-> EncryptionAlgorithm,
     FileMetaData |-> FileMetaData, FileCryptoMetaData |-> FileCryptoMetaData]
=============================================================================
